---- MODULE Spec2Model ----
(***************************************************************************)
(* Bat Algorithm routing for drone swarms (src/src/BatRouting.cc/.h).      *)
(*                                                                         *)
(* Every node of the network runs one BatRouting module.  A module reacts  *)
(* to its own routeUpdateTimer and to the messages the simulation kernel   *)
(* hands to handleMessage.  One action of this model is one complete       *)
(* handleMessage call; the simulation kernel (event order, simulated time, *)
(* which message arrives where) is the environment.                        *)
(*                                                                         *)
(* Real numbers (double) are fixed point, in thousandths: 1.0 is SCALE.    *)
(* Simulated time is in whole seconds.                                     *)
(***************************************************************************)
EXTENDS Integers, Sequences, FiniteSets, TLC

VARIABLES
    cfg,              \* the module parameters read by initialize() (same for all nodes)
    pos,              \* node -> position on a line (metres): the mobility modules
    network,          \* whether getParentModule()->getParentModule() finds the network
    now,              \* simTime()
    timerAt,          \* node -> arrival time of its pending routeUpdateTimer
    routeTable,       \* node -> (dest -> sequence of RouteInfo): the std::map of each module
    currentLoudness,  \* node -> loudness
    currentPulseRate, \* node -> pulse rate
    cycles,           \* node -> number of discovery cycles completed (history variable)
    delivered,        \* number of discovery packets the kernel has delivered so far
    last              \* what the last handleMessage call did (history variable)

vars == <<cfg, pos, network, now, timerAt, routeTable, currentLoudness, currentPulseRate,
          cycles, delivered, last>>

(***************************************************************************)
(* Bounds of the model.                                                    *)
(***************************************************************************)
NumNodes == 3
MaxTime == 3
MaxK == 2
MaxVisited == 3
MaxHops == 2
MaxDelivered == 2
MaxAdaptTime == 12

(***************************************************************************)
(* Program constants.                                                      *)
(***************************************************************************)
SCALE == 1000
LoudnessFloor == 100
PulseRateCeiling == 950
LinkQualityOffset == 100
NodeMobility == 100
HopCeiling == 10
UnknownFitness == 1000000000
NoId == -1
NoTimer == -1

(***************************************************************************)
(* The fitness weights, module parameters read by initialize(); the        *)
(* values of the shipped configuration are 1.0, 1.5, 1.0 and 0.8.          *)
(***************************************************************************)
hopCountWeight == cfg.hopCountWeight

linkQualityWeight == cfg.linkQualityWeight

energyWeight == cfg.energyWeight

mobilityWeight == cfg.mobilityWeight

Nodes == 0 .. (NumNodes - 1)

Range(s) == {s[i] : i \in 1 .. Len(s)}

NoDup(s) == \A i, j \in 1 .. Len(s) : i # j => s[i] # s[j]

Count(s, x) == Cardinality({i \in 1 .. Len(s) : s[i] = x})

SeqsUpTo(S, n) == UNION {[1 .. k -> S] : k \in 0 .. n}

Min(S) == CHOOSE x \in S : \A y \in S : x <= y

(***************************************************************************)
(* struct RouteInfo and its constructor.                                   *)
(***************************************************************************)
RouteInfo == [path |-> <<>>, fitness |-> UnknownFitness, hopCount |-> 0,
              linkQuality |-> 0, energyCost |-> 0, lastUpdate |-> 0]

(***************************************************************************)
(* RouteDiscoveryPacket and DataPacket, as constructed.                    *)
(***************************************************************************)
RouteDiscoveryPacket == [visitedNodes |-> <<>>, sourceId |-> NoId, destId |-> NoId,
                         accumulatedFitness |-> 0]

DataPacket == [sourceId |-> NoId, destId |-> NoId, currentHop |-> 0, routePath |-> <<>>]

(***************************************************************************)
(* calculateLinkQuality: max(0, 1 - dist/communicationRange); 0 when one   *)
(* of the two drones (or its mobility module, or the network) is not found.*)
(***************************************************************************)
Distance(a, b) == IF pos[a] >= pos[b] THEN pos[a] - pos[b] ELSE pos[b] - pos[a]

(* Mutant: the result is not clamped at 0. *)
calculateLinkQuality_NoClamp(nodeA, nodeB) ==
    IF ~network \/ nodeA \notin Nodes \/ nodeB \notin Nodes
    THEN 0
    ELSE SCALE - ((Distance(nodeA, nodeB) * SCALE) \div cfg.communicationRange)

calculateLinkQuality(nodeA, nodeB) ==
    IF ~network \/ nodeA \notin Nodes \/ nodeB \notin Nodes
    THEN 0
    ELSE LET q == SCALE - ((Distance(nodeA, nodeB) * SCALE) \div cfg.communicationRange)
         IN  IF q > 0 THEN q ELSE 0

calculateNodeMobility(nodeId) == NodeMobility

(***************************************************************************)
(* (1.0 / (q + 0.1)) * w, the term of processRouteDiscovery and of         *)
(* calculateRouteFitness.                                                  *)
(***************************************************************************)
InverseQuality(q, w) == (((SCALE * SCALE) \div (q + LinkQualityOffset)) * w) \div SCALE

RECURSIVE MobilitySum(_, _)
MobilitySum(path, i) ==
    IF i > Len(path) THEN 0
    ELSE ((calculateNodeMobility(path[i]) * mobilityWeight) \div SCALE)
         + MobilitySum(path, i + 1)

(* Mutant: the mobility of the nodes of the path is left out. *)
calculateRouteFitness_NoMobility(route) ==
    ((route.hopCount * hopCountWeight)
     + InverseQuality(route.linkQuality, linkQualityWeight)
     + ((route.energyCost * energyWeight) \div SCALE))

calculateRouteFitness(route) ==
    ((route.hopCount * hopCountWeight)
     + InverseQuality(route.linkQuality, linkQualityWeight)
     + ((route.energyCost * energyWeight) \div SCALE)
     + MobilitySum(route.path, 1))

(***************************************************************************)
(* std::sort with the comparator a.fitness < b.fitness.  The order of      *)
(* routes of equal fitness is unspecified, so the result is any            *)
(* permutation that the comparator accepts.                                *)
(***************************************************************************)
Arrangements(s) ==
    {[i \in 1 .. Len(s) |-> s[p[i]]] : p \in Permutations(1 .. Len(s))}

IsSortedByFitness(s) ==
    \A i, j \in 1 .. Len(s) : i < j => s[i].fitness <= s[j].fitness

(* Mutant: the entry is left in whatever order it has. *)
SortByFitness_Unsorted(s) == Arrangements(s)

SortByFitness(s) == {q \in Arrangements(s) : IsSortedByFitness(q)}

(***************************************************************************)
(* routes.resize(maxRoutesPerDestination) when the size exceeds it.        *)
(***************************************************************************)
(* Mutant: the routes at the end of the sorted entry are kept. *)
Truncate_KeepWorst(s, k) == IF Len(s) > k THEN SubSeq(s, Len(s) - k + 1, Len(s)) ELSE s

(* Mutant: one route too many is kept. *)
Truncate_OffByOne(s, k) == IF Len(s) > k + 1 THEN SubSeq(s, 1, k + 1) ELSE s

Truncate(s, k) == IF Len(s) > k THEN SubSeq(s, 1, k) ELSE s

(***************************************************************************)
(* updateRouteTable(dest, route) on the table tbl of one module: the set   *)
(* of tables it can leave.  routeTable[dest] creates the entry.            *)
(***************************************************************************)
RoutesOf(tbl, dest) == IF dest \in DOMAIN tbl THEN tbl[dest] ELSE <<>>

(* Mutant: a route with the path of the new one is replaced by it. *)
updateRouteTable_ReplaceSamePath(tbl, dest, route) ==
    {[d \in (DOMAIN tbl) \cup {dest} |->
         IF d = dest THEN Truncate(sorted, cfg.maxRoutesPerDestination) ELSE tbl[d]] :
     sorted \in SortByFitness(
                   Append(SelectSeq(RoutesOf(tbl, dest), LAMBDA r : r.path # route.path),
                          route))}

updateRouteTable(tbl, dest, route) ==
    {[d \in (DOMAIN tbl) \cup {dest} |->
         IF d = dest THEN Truncate(sorted, cfg.maxRoutesPerDestination) ELSE tbl[d]] :
     sorted \in SortByFitness(Append(RoutesOf(tbl, dest), route))}

(***************************************************************************)
(* selectBestRoute(dest): the first route, or none (nullptr).              *)
(***************************************************************************)
(* Mutant: the route at the end of the entry is returned. *)
selectBestRoute_Last(tbl, dest) ==
    IF dest \notin DOMAIN tbl \/ tbl[dest] = <<>> THEN <<>> ELSE <<tbl[dest][Len(tbl[dest])]>>

selectBestRoute(tbl, dest) ==
    IF dest \notin DOMAIN tbl \/ tbl[dest] = <<>> THEN <<>> ELSE <<tbl[dest][1]>>

(***************************************************************************)
(* optimizeRouteTable: recompute every fitness, then sort every entry.     *)
(***************************************************************************)
(* Mutant: a recomputed route counts as fresh. *)
Refit_Refresh(routes) ==
    [i \in 1 .. Len(routes) |->
        [routes[i] EXCEPT !.fitness = calculateRouteFitness(routes[i]),
                          !.lastUpdate = now]]

Refit(routes) ==
    [i \in 1 .. Len(routes) |->
        [routes[i] EXCEPT !.fitness = calculateRouteFitness(routes[i])]]

optimizeRouteTable(tbl) ==
    {t \in [DOMAIN tbl -> UNION {SortByFitness(Refit(tbl[d])) : d \in DOMAIN tbl}] :
        \A d \in DOMAIN tbl : t[d] \in SortByFitness(Refit(tbl[d]))}

(***************************************************************************)
(* cleanupExpiredRoutes at time t: erase the routes with                   *)
(* t - lastUpdate > routeTimeout, then erase the entries left empty.       *)
(***************************************************************************)
(* Mutant: a route expires already when its age equals the timeout. *)
Expired_AtTimeout(route, t) == (t - route.lastUpdate) >= cfg.routeTimeout

Expired(route, t) == (t - route.lastUpdate) > cfg.routeTimeout

(* Mutant: the best route of a destination is never erased. *)
RemoveExpired_KeepBest(routes, t) ==
    IF routes = <<>> THEN <<>>
    ELSE <<Head(routes)>> \o SelectSeq(Tail(routes), LAMBDA r : ~Expired(r, t))

(* Mutant: the survivors are moved, as by erasing with a swap. *)
RemoveExpired_Unordered(routes, t) ==
    LET kept == SelectSeq(routes, LAMBDA r : ~Expired(r, t))
    IN  [i \in 1 .. Len(kept) |-> kept[Len(kept) + 1 - i]]

RECURSIVE RemoveExpired(_, _)
RemoveExpired(routes, t) ==
    IF routes = <<>> THEN <<>>
    ELSE IF Expired(Head(routes), t)
         THEN RemoveExpired(Tail(routes), t)
         ELSE <<Head(routes)>> \o RemoveExpired(Tail(routes), t)

(* Mutant: the sweep leaves the table as it is. *)
cleanupExpiredRoutes_Skip(tbl, t) == tbl

cleanupExpiredRoutes(tbl, t) ==
    LET kept == {d \in DOMAIN tbl : RemoveExpired(tbl[d], t) # <<>>}
    IN  [d \in kept |-> RemoveExpired(tbl[d], t)]

(***************************************************************************)
(* exp(-x) for x = k/10, by repeated multiplication with e^(-0.1) (or      *)
(* e^(0.1) for a negative k), rounded down to thousandths.                 *)
(***************************************************************************)
RECURSIVE ExpNegTenths(_)
ExpNegTenths(k) ==
    IF k = 0 THEN SCALE
    ELSE IF k > 0 THEN (ExpNegTenths(k - 1) * 905) \div SCALE
         ELSE (ExpNegTenths(k + 1) * 1105) \div SCALE

(***************************************************************************)
(* updateBatParameters at simTime t: the new <<loudness, pulse rate>>.     *)
(***************************************************************************)
(* Mutant: the floor is 0 instead of 0.1. *)
ClampLoudness_ZeroFloor(l) == IF l < 0 THEN 0 ELSE l

ClampLoudness(l) == IF l < LoudnessFloor THEN LoudnessFloor ELSE l

ClampPulseRate(r) == IF r > PulseRateCeiling THEN PulseRateCeiling ELSE r

(* Mutant: the call puts both parameters back to their configured values. *)
updateBatParameters_Reset(loudness, t) == <<cfg.initialLoudness, cfg.initialPulseRate>>

(* Mutant: the decay is applied to the initial loudness at every call. *)
updateBatParameters_FromInitial(loudness, t) ==
    <<ClampLoudness((cfg.alpha * cfg.initialLoudness) \div SCALE),
      ClampPulseRate((cfg.initialPulseRate
                      * (SCALE - ExpNegTenths((cfg.gamma * t) \div 100))) \div SCALE)>>

updateBatParameters(loudness, t) ==
    <<ClampLoudness((cfg.alpha * loudness) \div SCALE),
      ClampPulseRate((cfg.initialPulseRate
                      * (SCALE - ExpNegTenths((cfg.gamma * t) \div 100))) \div SCALE)>>

(***************************************************************************)
(* The parameters of a run and the positions of the drones.                *)
(***************************************************************************)
Layouts == {
    [n \in Nodes |-> n * 100],
    [n \in Nodes |-> IF n = 1 THEN 1000 ELSE n * 100] }

BatConfigs ==
    [maxRoutesPerDestination : {MaxK},
     frequencyMin : {0},
     frequencyMax : {2000},
     hopCountWeight : {1000},
     linkQualityWeight : {1500},
     energyWeight : {1000},
     mobilityWeight : {800},
     routeTimeout : {1},
     routingUpdateInterval : {1},
     communicationRange : {200},
     alpha : {-500, 500, 900, 1500},
     gamma : {-100, 0, 100, 2000},
     initialLoudness : {50, 900, 2000},
     initialPulseRate : {-500, 500, 1000, 3000}]

(* Positions and ranges for the link quality: drones at the same place,    *)
(* within range, at the range and beyond it.                               *)
LinkLayouts ==
    {[n \in Nodes |-> IF n = 0 THEN 0 ELSE IF n = 1 THEN p1 ELSE p2] :
     p1 \in {0, 100, 200, 300}, p2 \in {0, 200}}

LinkConfigs ==
    [maxRoutesPerDestination : {MaxK},
     frequencyMin : {0},
     frequencyMax : {2000},
     hopCountWeight : {1000},
     linkQualityWeight : {1500},
     energyWeight : {1000},
     mobilityWeight : {800},
     routeTimeout : {1},
     routingUpdateInterval : {1},
     communicationRange : {1, 200, 250},
     alpha : {900},
     gamma : {100},
     initialLoudness : {900},
     initialPulseRate : {500}]

AdaptConfigs ==
    [maxRoutesPerDestination : {MaxK},
     frequencyMin : {0},
     frequencyMax : {2000},
     hopCountWeight : {1000},
     linkQualityWeight : {1500},
     energyWeight : {1000},
     mobilityWeight : {800},
     routeTimeout : {1},
     routingUpdateInterval : {1},
     communicationRange : {200},
     alpha : {500, 900},
     gamma : {100},
     initialLoudness : {100, 900, 2000},
     initialPulseRate : {500, 1000}]

Configs ==
    [maxRoutesPerDestination : 0 .. MaxK,
     frequencyMin : {0},
     frequencyMax : {2000},
     hopCountWeight : {1000},
     linkQualityWeight : {1500},
     energyWeight : {1000},
     mobilityWeight : {800},
     routeTimeout : {1},
     routingUpdateInterval : {1},
     communicationRange : {200},
     alpha : {900},
     gamma : {100},
     initialLoudness : {900},
     initialPulseRate : {500}]

(* uniform(0, 1) lies in [0, 1). *)
Draws == {0, 300, 600, 999}

(* uniform(2, 3), in whole seconds. *)
StartDelays == {2, 3}

(***************************************************************************)
(* getNeighborIds of node n: the other drones at a distance below          *)
(* communicationRange.                                                     *)
(***************************************************************************)
(* Mutant: every other drone counts as a neighbour. *)
getNeighborIds_NoRange(n) == Nodes \ {n}

getNeighborIds(n) ==
    {i \in Nodes : network /\ i # n /\ Distance(n, i) < cfg.communicationRange}

(***************************************************************************)
(* The discovery packets the kernel can hand to a module.  sourceId and    *)
(* visitedNodes[0] are set together by broadcastRouteDiscovery; a packet   *)
(* that is still as constructed has no visited node and no source.  A      *)
(* probe fresh from its source has accumulated no fitness.                 *)
(***************************************************************************)
FitnessInputs(v) == IF Len(v) <= 1 THEN {0} ELSE IF Len(v) = 2 THEN {0, 3000} ELSE {3000}

PacketsOver(paths) ==
    {[visitedNodes |-> v,
      sourceId |-> IF v = <<>> THEN NoId ELSE v[1],
      destId |-> d,
      accumulatedFitness |-> f] :
     v \in paths, d \in Nodes, f \in UNION {FitnessInputs(w) : w \in paths}}

(* Any packet: any visited sequence. *)
DiscoveryPackets ==
    {p \in PacketsOver(SeqsUpTo(Nodes, MaxVisited)) :
        p.accumulatedFitness \in FitnessInputs(p.visitedNodes)}

(* Probes on their way from a source to another node: created with         *)
(* visitedNodes = [source] and extended by the nodes that accepted them.   *)
ProbeSources == {0}

ProbePackets ==
    {p \in PacketsOver({v \in SeqsUpTo(Nodes, MaxHops) : v # <<>> /\ NoDup(v)}) :
        /\ p.accumulatedFitness \in FitnessInputs(p.visitedNodes)
        /\ p.sourceId \in ProbeSources
        /\ p.destId # p.sourceId}

(* Packets that no source has stamped: sourceId is still -1. *)
UnstampedPackets == {[RouteDiscoveryPacket EXCEPT !.destId = d] : d \in Nodes}

(* Probes from a source, and packets that never had one. *)
LinkPackets == ProbePackets \cup UnstampedPackets

(* Radio delivery: node n receives a probe from the last node that         *)
(* relayed it, a neighbour of n.                                           *)
RadioPackets(n) ==
    {p \in ProbePackets : p.visitedNodes[Len(p.visitedNodes)] \in getNeighborIds(n)}

DataPackets ==
    {[DataPacket EXCEPT !.sourceId = s, !.destId = d] : s \in {0}, d \in Nodes \cup {NoId}}

(* Data packets of node 0, fresh or already on a path. *)
ForwardPackets ==
    {[DataPacket EXCEPT !.sourceId = 0, !.destId = d, !.currentHop = h,
                        !.routePath = IF h = 0 THEN <<>> ELSE <<0, 1>>] :
     d \in {1, 2}, h \in {0, 1}}

NoEvent ==
    [op |-> "initialize", node |-> NoId, pktIn |-> RouteDiscoveryPacket,
     pktOut |-> RouteDiscoveryPacket, outcome |-> "none", probes |-> <<>>,
     route |-> RouteInfo, dataIn |-> DataPacket, dataOut |-> DataPacket,
     expired |-> 0, adapted |-> 0, phases |-> <<>>, disposal |-> <<>>,
     draws |-> 0, random |-> <<>>,
     sent |-> {}, routeDiscovered |-> 0, packetRouted |-> 0]

(***************************************************************************)
(* What the handler does with the message it received, by the path taken   *)
(* through handleMessage: the calls made on the message, in order.         *)
(***************************************************************************)
(* Mutant: a relay that passes the gate keeps the message. *)
Disposal_RelayKeeps(path) ==
    IF path = "routeUpdate" THEN <<"scheduleAt">>
    ELSE IF path = "forward" THEN <<>>
    ELSE <<"delete">>

Disposal(path) ==
    IF path = "routeUpdate" THEN <<"scheduleAt">> ELSE <<"delete">>

(***************************************************************************)
(* initialize(): parameters read, loudness and pulse rate set to their     *)
(* initial values, the first routeUpdateTimer scheduled at uniform(2, 3).  *)
(***************************************************************************)
Init ==
    /\ cfg \in Configs
    /\ pos \in Layouts
    /\ network = TRUE
    /\ now = 0
    /\ timerAt \in [Nodes -> StartDelays]
    /\ routeTable = [n \in Nodes |-> <<>>]
    /\ currentLoudness = [n \in Nodes |-> cfg.initialLoudness]
    /\ currentPulseRate = [n \in Nodes |-> cfg.initialPulseRate]
    /\ cycles = [n \in Nodes |-> 0]
    /\ delivered = 0
    /\ last = NoEvent

RECURSIVE SumLen(_, _)
SumLen(tbl, D) ==
    IF D = {} THEN 0
    ELSE LET d == CHOOSE x \in D : TRUE
         IN  Len(tbl[d]) + SumLen(tbl, D \ {d})

RouteCount(tbl) == SumLen(tbl, DOMAIN tbl)

(***************************************************************************)
(* discoverRoutes: the destinations probed, in ascending order, for one    *)
(* draw per destination other than the node itself.                        *)
(***************************************************************************)
(* Mutant: the probe leaves without its source among the visited nodes. *)
broadcastRouteDiscovery_NoVisited(n, destId) ==
    [RouteDiscoveryPacket EXCEPT !.sourceId = n, !.destId = destId,
                                 !.visitedNodes = <<>>, !.accumulatedFitness = 0]

broadcastRouteDiscovery(n, destId) ==
    [RouteDiscoveryPacket EXCEPT !.sourceId = n, !.destId = destId,
                                 !.visitedNodes = <<n>>, !.accumulatedFitness = 0]

RECURSIVE ProbesFrom(_, _, _, _)
ProbesFrom(n, destId, u, rate) ==
    IF destId >= NumNodes THEN <<>>
    ELSE IF destId = n THEN ProbesFrom(n, destId + 1, u, rate)
    ELSE IF u[destId] < rate
         THEN <<broadcastRouteDiscovery(n, destId)>> \o ProbesFrom(n, destId + 1, u, rate)
         ELSE ProbesFrom(n, destId + 1, u, rate)

(* Mutant: updateBatParameters runs before the probing loop. *)
discoverRoutes_AdaptFirst(n, u) ==
    ProbesFrom(n, 0, u, updateBatParameters(currentLoudness[n], now)[2])

discoverRoutes(n, u) == ProbesFrom(n, 0, u, currentPulseRate[n])

(***************************************************************************)
(* handleMessage(routeUpdateTimer) at node n: discoverRoutes (probing,     *)
(* then updateBatParameters; neither when the network is not found),       *)
(* optimizeRouteTable, cleanupExpiredRoutes, and the timer is scheduled    *)
(* again.  broadcastRouteDiscovery builds the probe, emits routeDiscovered *)
(* and deletes the probe: nothing is sent.                                 *)
(***************************************************************************)
MaintenancePhases ==
    <<"discoverRoutes", "optimizeRouteTable", "cleanupExpiredRoutes", "scheduleAt">>

RouteCycle(n, outcomes) ==
    /\ timerAt[n] = now
    /\ \A m \in Nodes : m < n => (timerAt[m] = NoTimer \/ timerAt[m] > now)
    /\ LET bat == IF network
                  THEN updateBatParameters(currentLoudness[n], now)
                  ELSE <<currentLoudness[n], currentPulseRate[n]>>
       IN  /\ currentLoudness' = [currentLoudness EXCEPT ![n] = bat[1]]
           /\ currentPulseRate' = [currentPulseRate EXCEPT ![n] = bat[2]]
    /\ \E o \in (IF network THEN outcomes ELSE {[probes |-> <<>>, random |-> <<>>]}) :
       \E optimized \in optimizeRouteTable(routeTable[n]) :
          LET cleaned == cleanupExpiredRoutes(optimized, now)
          IN  /\ routeTable' = [routeTable EXCEPT ![n] = cleaned]
              /\ last' = [NoEvent EXCEPT !.op = "routeUpdate", !.node = n,
                                         !.probes = o.probes,
                                         !.random = o.random,
                                         !.draws = IF network
                                                   THEN 2 * Cardinality(Nodes \ {n})
                                                   ELSE 0,
                                         !.expired = RouteCount(optimized) - RouteCount(cleaned),
                                         !.adapted = IF network THEN 1 ELSE 0,
                                         !.phases = MaintenancePhases,
                                         !.disposal = Disposal("routeUpdate"),
                                         !.routeDiscovered = Len(o.probes)]
    /\ timerAt' = [timerAt EXCEPT ![n] = now + cfg.routingUpdateInterval]
    /\ cycles' = [cycles EXCEPT ![n] = @ + 1]
    /\ UNCHANGED <<cfg, pos, network, now, delivered>>

(* The cycle for every outcome of the pulse draws. *)
RouteUpdate(n) ==
    RouteCycle(n, {[probes |-> discoverRoutes(n, u), random |-> <<>>] :
                   u \in [Nodes \ {n} -> Draws]})

(***************************************************************************)
(* discoverRoutes with its random source laid open: for every destination  *)
(* other than the node one value for the frequency, then one for the       *)
(* pulse.  random is the sequence of values uniform(0, 1) returns.         *)
(***************************************************************************)
FrequencyRange == [min |-> cfg.frequencyMin, max |-> cfg.frequencyMax]

Frequency(fr, r) == fr.min + ((fr.max - fr.min) * r) \div SCALE

(* Mutant: a low frequency suppresses the pulse. *)
EmitsPulse_ByFrequency(frequency, draw, rate) == draw < rate /\ frequency >= SCALE

EmitsPulse(frequency, draw, rate) == draw < rate

RECURSIVE DrawingFrom(_, _, _, _, _, _)
DrawingFrom(n, destId, random, k, rate, fr) ==
    IF destId >= NumNodes THEN <<>>
    ELSE IF destId = n THEN DrawingFrom(n, destId + 1, random, k, rate, fr)
    ELSE (IF EmitsPulse(Frequency(fr, random[k]), random[k + 1], rate)
          THEN <<broadcastRouteDiscovery(n, destId)>> ELSE <<>>)
         \o DrawingFrom(n, destId + 1, random, k + 2, rate, fr)

discoverRoutesDrawing(n, random, fr) ==
    DrawingFrom(n, 0, random, 1, currentPulseRate[n], fr)

StreamDraws == {0, 300, 999}

RandomStreams == [1 .. 2 * (NumNodes - 1) -> StreamDraws]

RouteUpdateDrawing(n) ==
    RouteCycle(n, {[probes |-> discoverRoutesDrawing(n, random, FrequencyRange),
                    random |-> random] : random \in RandomStreams})

(***************************************************************************)
(* processRouteDiscovery(pkt) at node n.                                   *)
(***************************************************************************)
(* Mutant: the node adds its term but not itself to visitedNodes. *)
AppendSelf_NoAppend(pkt, n) ==
    [pkt EXCEPT
       !.accumulatedFitness =
           IF Len(pkt.visitedNodes) >= 1
           THEN pkt.accumulatedFitness
                + InverseQuality(
                      calculateLinkQuality(pkt.visitedNodes[Len(pkt.visitedNodes)], n),
                      hopCountWeight)
           ELSE pkt.accumulatedFitness]

(* Mutant: the term replaces what the message had accumulated. *)
AppendSelf_Overwrite(pkt, n) ==
    LET visited == Append(pkt.visitedNodes, n)
    IN  [pkt EXCEPT
           !.visitedNodes = visited,
           !.accumulatedFitness =
               IF Len(visited) > 1
               THEN InverseQuality(calculateLinkQuality(visited[Len(visited) - 1], n),
                                   hopCountWeight)
               ELSE pkt.accumulatedFitness]

(* Mutant: the destination adds no term for the hop into it. *)
AppendSelf_RelayOnly(pkt, n) ==
    LET visited == Append(pkt.visitedNodes, n)
    IN  [pkt EXCEPT
           !.visitedNodes = visited,
           !.accumulatedFitness =
               IF Len(visited) > 1 /\ pkt.destId # n
               THEN pkt.accumulatedFitness
                    + InverseQuality(calculateLinkQuality(visited[Len(visited) - 1], n),
                                     hopCountWeight)
               ELSE pkt.accumulatedFitness]

AppendSelf(pkt, n) ==
    LET visited == Append(pkt.visitedNodes, n)
    IN  [pkt EXCEPT
           !.visitedNodes = visited,
           !.accumulatedFitness =
               IF Len(visited) > 1
               THEN pkt.accumulatedFitness
                    + InverseQuality(calculateLinkQuality(visited[Len(visited) - 1], n),
                                     hopCountWeight)
               ELSE pkt.accumulatedFitness]

(* Mutant: only the previous hop is compared. *)
LoopDetected_LastHopOnly(pkt, n) ==
    pkt.visitedNodes # <<>> /\ pkt.visitedNodes[Len(pkt.visitedNodes)] = n

(* Mutant: the loop check is missing. *)
LoopDetected_Never(pkt, n) == FALSE

LoopDetected(pkt, n) == \E i \in 1 .. Len(pkt.visitedNodes) : pkt.visitedNodes[i] = n

(* Mutant: hopCount counts the nodes, not the hops. *)
RouteFrom_HopCountNodes(pkt, t) ==
    [RouteInfo EXCEPT !.path = pkt.visitedNodes,
                      !.hopCount = Len(pkt.visitedNodes),
                      !.fitness = pkt.accumulatedFitness,
                      !.lastUpdate = t]

RouteFrom(pkt, t) ==
    [RouteInfo EXCEPT !.path = pkt.visitedNodes,
                      !.hopCount = Len(pkt.visitedNodes) - 1,
                      !.fitness = pkt.accumulatedFitness,
                      !.lastUpdate = t]

(* The module whose updateRouteTable the destination n calls: the          *)
(* batRouting module of drone sourceId, when the network and it are found. *)
(* Mutant: the destination calls its own updateRouteTable. *)
InstallTarget_Destination(pkt, n) ==
    IF network /\ pkt.sourceId \in Nodes THEN {n} ELSE {}

(* Mutant: the destination keeps the route itself when it finds no source. *)
InstallTarget_FallbackSelf(pkt, n) ==
    IF network /\ pkt.sourceId \in Nodes THEN {pkt.sourceId} ELSE {n}

InstallTarget(pkt, n) ==
    IF network /\ pkt.sourceId \in Nodes THEN {pkt.sourceId} ELSE {}

(* emit(routeDiscoveredSignal, 1) in processRouteDiscovery, by the path    *)
(* taken: at the end of the destination branch, whatever was installed.    *)
(* Mutant: the signal is emitted only where the route was installed. *)
routeDiscoveredAt_InstallOnly(path) == IF path = "installed" THEN 1 ELSE 0

routeDiscoveredAt(path) == IF path \in {"installed", "nosource"} THEN 1 ELSE 0

(* The random values the relay condition draws: the draw is the right     *)
(* operand of &&, evaluated only when the left operand holds.              *)
(* Mutant: the draw is made before the ceiling is looked at. *)
RelayDraws_Always(pkt) == 1

RelayDraws(pkt) == IF Len(pkt.visitedNodes) < HopCeiling THEN 1 ELSE 0

(* The relay gate, evaluated after the node appended itself. *)
(* Mutant: the ceiling admits a tenth node. *)
RelayGate_Inclusive(pkt, u, loudness) ==
    Len(pkt.visitedNodes) <= HopCeiling /\ u < loudness

RelayGate(pkt, u, loudness) ==
    Len(pkt.visitedNodes) < HopCeiling /\ u < loudness

ProcessRouteDiscovery(n, packets) ==
    /\ delivered < MaxDelivered
    /\ delivered' = delivered + 1
    /\ \E pkt \in packets :
         IF LoopDetected(pkt, n)
         THEN /\ last' = [NoEvent EXCEPT !.op = "discovery", !.node = n, !.pktIn = pkt,
                                         !.pktOut = pkt, !.outcome = "loop",
                                         !.routeDiscovered = routeDiscoveredAt("loop"),
                                         !.disposal = Disposal("loop")]
              /\ UNCHANGED routeTable
         ELSE LET out == AppendSelf(pkt, n)
                  route == RouteFrom(out, now)
              IN  IF out.destId = n
                  THEN IF InstallTarget(out, n) # {}
                       THEN \E src \in InstallTarget(out, n) :
                            \E tbl \in updateRouteTable(routeTable[src], n, route) :
                              /\ routeTable' = [routeTable EXCEPT ![src] = tbl]
                              /\ last' = [NoEvent EXCEPT
                                            !.op = "discovery", !.node = n, !.pktIn = pkt,
                                            !.pktOut = out, !.outcome = "installed",
                                            !.disposal = Disposal("installed"),
                                            !.route = route,
                                            !.routeDiscovered = routeDiscoveredAt("installed")]
                       ELSE /\ UNCHANGED routeTable
                            /\ last' = [NoEvent EXCEPT
                                          !.op = "discovery", !.node = n, !.pktIn = pkt,
                                          !.pktOut = out, !.outcome = "nosource",
                                          !.disposal = Disposal("nosource"),
                                          !.route = route,
                                          !.routeDiscovered = routeDiscoveredAt("nosource")]
                  ELSE /\ UNCHANGED routeTable
                       /\ \E u \in Draws :
                            LET relay == IF RelayGate(out, u, currentLoudness[n])
                                         THEN "forward" ELSE "drop"
                            IN  last' = [NoEvent EXCEPT
                                           !.op = "discovery", !.node = n, !.pktIn = pkt,
                                           !.pktOut = out, !.outcome = relay,
                                           !.draws = RelayDraws(out),
                                           !.routeDiscovered = routeDiscoveredAt(relay),
                                           !.disposal = Disposal(relay)]
    /\ UNCHANGED <<cfg, pos, network, now, timerAt, currentLoudness, currentPulseRate, cycles>>

(***************************************************************************)
(* routeDataPacket(pkt) at node n.                                         *)
(***************************************************************************)
(* Mutant: the hop cursor of the packet is left as it came. *)
routeDataPacket_KeepCursor(tbl, pkt) ==
    LET route == selectBestRoute(tbl, pkt.destId)
    IN  IF route # <<>> THEN [pkt EXCEPT !.routePath = route[1].path] ELSE pkt

routeDataPacket(tbl, pkt) ==
    LET route == selectBestRoute(tbl, pkt.destId)
    IN  IF route # <<>>
        THEN [pkt EXCEPT !.routePath = route[1].path, !.currentHop = 0]
        ELSE pkt

RouteDataPacket(n, packets) ==
    /\ \E pkt \in packets :
         LET found == IF selectBestRoute(routeTable[n], pkt.destId) # <<>>
                      THEN "routed" ELSE "noroute"
         IN  last' = [NoEvent EXCEPT
                        !.op = "data", !.node = n, !.dataIn = pkt,
                        !.dataOut = routeDataPacket(routeTable[n], pkt),
                        !.outcome = found, !.disposal = Disposal(found),
                        !.packetRouted = 1]
    /\ UNCHANGED <<cfg, pos, network, now, timerAt, routeTable, currentLoudness, currentPulseRate,
                   cycles, delivered>>

(***************************************************************************)
(* handleMessage on any other message: delete msg.                         *)
(***************************************************************************)
(* Mutant: the message is counted as routed before its type is looked at. *)
OtherMessage_Counted(n) ==
    /\ last' = [NoEvent EXCEPT !.op = "other", !.node = n, !.outcome = "deleted",
                               !.disposal = Disposal("deleted"), !.packetRouted = 1]
    /\ UNCHANGED <<cfg, pos, network, now, timerAt, routeTable, currentLoudness, currentPulseRate,
                   cycles, delivered>>

OtherMessage(n) ==
    /\ last' = [NoEvent EXCEPT !.op = "other", !.node = n, !.outcome = "deleted",
                               !.disposal = Disposal("deleted")]
    /\ UNCHANGED <<cfg, pos, network, now, timerAt, routeTable, currentLoudness, currentPulseRate,
                   cycles, delivered>>

(***************************************************************************)
(* ~BatRouting() at node n: cancelAndDelete(routeUpdateTimer).  The module *)
(* is gone: its timer is neither pending nor owned any longer, and no      *)
(* message reaches it.                                                     *)
(***************************************************************************)
(* Mutant: the destructor leaves the timer in the future event set. *)
Cancel_LeavePending(timers, n) == timers

Cancel(timers, n) == [timers EXCEPT ![n] = NoTimer]

Teardown(n) ==
    /\ timerAt[n] # NoTimer
    /\ timerAt' = Cancel(timerAt, n)
    /\ last' = [NoEvent EXCEPT !.op = "teardown", !.node = n,
                               !.disposal = <<"cancelAndDelete">>]
    /\ UNCHANGED <<cfg, pos, network, now, routeTable, currentLoudness, currentPulseRate,
                   cycles, delivered>>

(***************************************************************************)
(* The kernel advances simulated time when no timer is due.                *)
(***************************************************************************)
AdvanceUpTo(limit) ==
    /\ now < limit
    /\ \A n \in Nodes : timerAt[n] = NoTimer \/ timerAt[n] > now
    /\ now' = now + 1
    /\ last' = [NoEvent EXCEPT !.op = "advance"]
    /\ UNCHANGED <<cfg, pos, network, timerAt, routeTable, currentLoudness, currentPulseRate,
                   cycles, delivered>>

Advance == AdvanceUpTo(MaxTime)

(***************************************************************************)
(* The network: timers, radio delivery of probes, data packets.            *)
(***************************************************************************)
handleMessage(n) ==
    \/ RouteUpdate(n)
    \/ ProcessRouteDiscovery(n, RadioPackets(n))

Next ==
    \/ \E n \in Nodes : handleMessage(n)
    \/ Advance

Spec == Init /\ [][Next]_vars

(***************************************************************************)
(* Message handling alone, on any packet, before the first timer fires.    *)
(***************************************************************************)
InitDiscovery ==
    /\ Init
    /\ timerAt = [n \in Nodes |-> Min(StartDelays)]
    /\ pos = [n \in Nodes |-> n * 100]

NextDiscovery ==
    \/ \E n \in Nodes : ProcessRouteDiscovery(n, DiscoveryPackets)
    \/ \E n \in Nodes : RouteDataPacket(n, DataPackets)
    \/ \E n \in Nodes : OtherMessage(n)

SpecDiscovery == InitDiscovery /\ [][NextDiscovery]_vars

(***************************************************************************)
(* The discovery cycles alone, for every setting of the bat parameters.    *)
(***************************************************************************)
InitBat ==
    /\ cfg \in BatConfigs
    /\ pos = [n \in Nodes |-> n * 100]
    /\ network = TRUE
    /\ now = 0
    /\ timerAt \in [Nodes -> StartDelays]
    /\ routeTable = [n \in Nodes |-> <<>>]
    /\ currentLoudness = [n \in Nodes |-> cfg.initialLoudness]
    /\ currentPulseRate = [n \in Nodes |-> cfg.initialPulseRate]
    /\ cycles = [n \in Nodes |-> 0]
    /\ delivered = 0
    /\ last = NoEvent

NextBat ==
    \/ \E n \in Nodes : RouteUpdate(n)
    \/ Advance

SpecBat == InitBat /\ [][NextBat]_vars

(***************************************************************************)
(* The network with data traffic: every branch of handleMessage, drones in *)
(* a line, first timers at the same time.                                  *)
(***************************************************************************)
InitForward ==
    /\ Init
    /\ pos = [n \in Nodes |-> n * 100]
    /\ timerAt = [n \in Nodes |-> Min(StartDelays)]

NextForward ==
    \/ \E n \in Nodes : handleMessage(n)
    \/ \E n \in Nodes : RouteDataPacket(n, ForwardPackets)
    \/ \E n \in Nodes : OtherMessage(n)
    \/ Advance

SpecForward == InitForward /\ [][NextForward]_vars

(***************************************************************************)
(* Probes as the protocol carries them: accumulatedFitness is what the     *)
(* nodes of visitedNodes added on the way, one term per hop.               *)
(***************************************************************************)
RECURSIVE PathCost(_)
PathCost(v) ==
    IF Len(v) <= 1 THEN 0
    ELSE PathCost(SubSeq(v, 1, Len(v) - 1))
         + InverseQuality(calculateLinkQuality(v[Len(v) - 1], v[Len(v)]), hopCountWeight)

CostPackets ==
    {[p EXCEPT !.accumulatedFitness = PathCost(p.visitedNodes)] :
     p \in {q \in ProbePackets : q.accumulatedFitness = 0}}

(***************************************************************************)
(* Discovery and maintenance for every sign of the fitness weights, all    *)
(* drones within range of each other.                                      *)
(***************************************************************************)
WeightConfigs ==
    [maxRoutesPerDestination : {MaxK},
     frequencyMin : {0},
     frequencyMax : {2000},
     hopCountWeight : {-1000, 0, 1000},
     linkQualityWeight : {1500},
     energyWeight : {1000},
     mobilityWeight : {0, 800},
     routeTimeout : {2},
     routingUpdateInterval : {1},
     communicationRange : {250},
     alpha : {900},
     gamma : {100},
     initialLoudness : {900},
     initialPulseRate : {500}]

InitOptimize ==
    /\ cfg \in WeightConfigs
    /\ pos = [n \in Nodes |-> n * 100]
    /\ network = TRUE
    /\ now = 0
    /\ timerAt = [n \in Nodes |-> Min(StartDelays)]
    /\ routeTable = [n \in Nodes |-> <<>>]
    /\ currentLoudness = [n \in Nodes |-> cfg.initialLoudness]
    /\ currentPulseRate = [n \in Nodes |-> cfg.initialPulseRate]
    /\ cycles = [n \in Nodes |-> 0]
    /\ delivered = 0
    /\ last = NoEvent

NextOptimize ==
    \/ \E n \in Nodes : RouteUpdate(n)
    \/ \E n \in Nodes : ProcessRouteDiscovery(n, CostPackets)
    \/ Advance

SpecOptimize == InitOptimize /\ [][NextOptimize]_vars

(***************************************************************************)
(* Routes growing old: timeouts shorter than the maintenance interval,     *)
(* probes of a source delivered once the source has run a discovery cycle. *)
(***************************************************************************)
LifetimeConfigs ==
    [maxRoutesPerDestination : {MaxK},
     frequencyMin : {0},
     frequencyMax : {2000},
     hopCountWeight : {1000},
     linkQualityWeight : {1500},
     energyWeight : {1000},
     mobilityWeight : {800},
     routeTimeout : {0, 1},
     routingUpdateInterval : {1, 2},
     communicationRange : {200},
     alpha : {900},
     gamma : {100},
     initialLoudness : {900},
     initialPulseRate : {500}]

CausalPackets(n) == {p \in RadioPackets(n) : cycles[p.sourceId] >= 1}

InitLifetime ==
    /\ cfg \in LifetimeConfigs
    /\ pos = [n \in Nodes |-> n * 100]
    /\ network = TRUE
    /\ now = 0
    /\ timerAt = [n \in Nodes |-> Min(StartDelays)]
    /\ routeTable = [n \in Nodes |-> <<>>]
    /\ currentLoudness = [n \in Nodes |-> cfg.initialLoudness]
    /\ currentPulseRate = [n \in Nodes |-> cfg.initialPulseRate]
    /\ cycles = [n \in Nodes |-> 0]
    /\ delivered = 0
    /\ last = NoEvent

NextLifetime ==
    \/ \E n \in Nodes : RouteUpdate(n)
    \/ \E n \in Nodes : ProcessRouteDiscovery(n, CausalPackets(n))
    \/ \E n \in Nodes : RouteDataPacket(n, ForwardPackets)
    \/ Advance

SpecLifetime == InitLifetime /\ [][NextLifetime]_vars

(***************************************************************************)
(* The discovery cycles for several frequency ranges, the random values    *)
(* of every cycle laid open.                                               *)
(***************************************************************************)
FrequencyRanges ==
    {[min |-> 0, max |-> 2000], [min |-> 1000, max |-> 1000],
     [min |-> 0, max |-> 500], [min |-> 3000, max |-> 5000]}

FrequencyConfigs ==
    {[c EXCEPT !.frequencyMin = fr.min, !.frequencyMax = fr.max] :
     c \in {b \in BatConfigs : b.alpha = 900 /\ b.gamma = 100
                               /\ b.initialLoudness = 900
                               /\ b.initialPulseRate = 500},
     fr \in FrequencyRanges}

InitFrequency ==
    /\ cfg \in FrequencyConfigs
    /\ pos = [n \in Nodes |-> n * 100]
    /\ network = TRUE
    /\ now = 0
    /\ timerAt = [n \in Nodes |-> Min(StartDelays)]
    /\ routeTable = [n \in Nodes |-> <<>>]
    /\ currentLoudness = [n \in Nodes |-> cfg.initialLoudness]
    /\ currentPulseRate = [n \in Nodes |-> cfg.initialPulseRate]
    /\ cycles = [n \in Nodes |-> 0]
    /\ delivered = 0
    /\ last = NoEvent

NextFrequency ==
    \/ \E n \in Nodes : RouteUpdateDrawing(n)
    \/ Advance

SpecFrequency == InitFrequency /\ [][NextFrequency]_vars

(***************************************************************************)
(* A node and every message it can be handed, with and without the         *)
(* network module, messages that no source has stamped among them.         *)
(***************************************************************************)
InitNode ==
    /\ cfg \in {c \in Configs : c.maxRoutesPerDestination = MaxK}
    /\ pos = [n \in Nodes |-> n * 100]
    /\ network \in BOOLEAN
    /\ now = 0
    /\ timerAt = [n \in Nodes |-> Min(StartDelays)]
    /\ routeTable = [n \in Nodes |-> <<>>]
    /\ currentLoudness = [n \in Nodes |-> cfg.initialLoudness]
    /\ currentPulseRate = [n \in Nodes |-> cfg.initialPulseRate]
    /\ cycles = [n \in Nodes |-> 0]
    /\ delivered = 0
    /\ last = NoEvent

NextNode ==
    \/ \E n \in Nodes : RouteUpdate(n)
    \/ \E n \in Nodes : ProcessRouteDiscovery(n, LinkPackets)
    \/ \E n \in Nodes : RouteDataPacket(n, DataPackets)
    \/ \E n \in Nodes : OtherMessage(n)
    \/ Advance

SpecNode == InitNode /\ [][NextNode]_vars

(***************************************************************************)
(* The life of the modules: timers fire, modules are deleted.              *)
(***************************************************************************)
InitLifecycle == Init

NextLifecycle ==
    \/ \E n \in Nodes : RouteUpdate(n)
    \/ \E n \in Nodes : Teardown(n)
    \/ Advance

SpecLifecycle == InitLifecycle /\ [][NextLifecycle]_vars

(***************************************************************************)
(* Probes that have travelled far: a probe of node 0 that relays passed on *)
(* comes with fewer than HopCeiling visited nodes, the relays beyond the   *)
(* drones placed here being drones 3, 4, ... of a longer swarm.            *)
(***************************************************************************)
LongPath(len) == [i \in 1 .. len |-> IF i = 1 THEN 0 ELSE NumNodes + i - 2]

CeilingLengths == {1, HopCeiling - 2, HopCeiling - 1}

CeilingPackets ==
    {[RouteDiscoveryPacket EXCEPT !.sourceId = 0, !.destId = d,
                                  !.visitedNodes = LongPath(len),
                                  !.accumulatedFitness = 0] :
     d \in Nodes \ {0}, len \in CeilingLengths}

InitCeiling == InitDiscovery

NextCeiling == \E n \in Nodes : ProcessRouteDiscovery(n, CeilingPackets)

SpecCeiling == InitCeiling /\ [][NextCeiling]_vars

(***************************************************************************)
(* Probes handed to any node, for many positions and ranges, with and      *)
(* without the network module.                                             *)
(***************************************************************************)
InitLink ==
    /\ cfg \in LinkConfigs
    /\ pos \in LinkLayouts
    /\ network \in BOOLEAN
    /\ now = 0
    /\ timerAt = [n \in Nodes |-> Min(StartDelays)]
    /\ routeTable = [n \in Nodes |-> <<>>]
    /\ currentLoudness = [n \in Nodes |-> cfg.initialLoudness]
    /\ currentPulseRate = [n \in Nodes |-> cfg.initialPulseRate]
    /\ cycles = [n \in Nodes |-> 0]
    /\ delivered = 0
    /\ last = NoEvent

NextLink == \E n \in Nodes : ProcessRouteDiscovery(n, LinkPackets)

SpecLink == InitLink /\ [][NextLink]_vars

(* The same, for probes carrying what their path has cost. *)
InitCost == InitLink

NextCost == \E n \in Nodes : ProcessRouteDiscovery(n, CostPackets)

SpecCost == InitCost /\ [][NextCost]_vars

(***************************************************************************)
(* Many discovery cycles in a row, with and without the network module.    *)
(***************************************************************************)
InitAdapt ==
    /\ cfg \in AdaptConfigs
    /\ pos = [n \in Nodes |-> n * 100]
    /\ network \in BOOLEAN
    /\ now = 0
    /\ timerAt \in [Nodes -> StartDelays]
    /\ routeTable = [n \in Nodes |-> <<>>]
    /\ currentLoudness = [n \in Nodes |-> cfg.initialLoudness]
    /\ currentPulseRate = [n \in Nodes |-> cfg.initialPulseRate]
    /\ cycles = [n \in Nodes |-> 0]
    /\ delivered = 0
    /\ last = NoEvent

NextAdapt ==
    \/ \E n \in Nodes : RouteUpdate(n)
    \/ AdvanceUpTo(MaxAdaptTime)

SpecAdapt == InitAdapt /\ [][NextAdapt]_vars

(***************************************************************************)
(*                              Properties                                 *)
(***************************************************************************)
AllRoutes(n) == UNION {Range(routeTable[n][d]) : d \in DOMAIN routeTable[n]}

LineLayout == pos = [n \in Nodes |-> n * 100]

IsDiscoveryStep == last'.op = "discovery" /\ delivered' = delivered + 1

(* C1: bounded table size.  In every reachable state, so after every       *)
(* updateRouteTable call wherever it was made from, every entry of every   *)
(* node's table holds at most maxRoutesPerDestination routes.              *)
C1_BoundedTableSize ==
    \A n \in Nodes : \A d \in DOMAIN routeTable[n] :
        Len(routeTable[n][d]) <= cfg.maxRoutesPerDestination

(* C1 witness: an install at another node's handler whose route was cut    *)
(* off by the bound of a table that keeps at least one route.              *)
C1_Witness ==
    /\ last.op = "discovery" /\ last.outcome = "installed"
    /\ last.node # last.pktIn.sourceId
    /\ cfg.maxRoutesPerDestination >= 1
    /\ Len(routeTable[last.pktIn.sourceId][last.node]) = cfg.maxRoutesPerDestination
    /\ last.route \notin Range(routeTable[last.pktIn.sourceId][last.node])

(* C2: sorted invariant.  Every entry of every table is non-decreasing in  *)
(* fitness in every reachable state (so right after updateRouteTable and   *)
(* after the maintenance cycle), and whatever optimizeRouteTable makes of  *)
(* a reachable table is non-decreasing in fitness.                         *)
C2_SortedByFitness ==
    \A n \in Nodes :
        /\ \A d \in DOMAIN routeTable[n] : IsSortedByFitness(routeTable[n][d])
        /\ \A t \in optimizeRouteTable(routeTable[n]) :
              \A d \in DOMAIN t : IsSortedByFitness(t[d])

(* C2 witness: a maintenance cycle has left two routes of different        *)
(* fitness in one entry.                                                   *)
C2_Witness ==
    /\ last.op = "routeUpdate"
    /\ \E d \in DOMAIN routeTable[last.node] :
          /\ Len(routeTable[last.node][d]) = 2
          /\ routeTable[last.node][d][1].fitness < routeTable[last.node][d][2].fitness

(* C3: no dangling empty entries.  In every reachable state no table maps  *)
(* a destination to an empty sequence.                                     *)
C3_NoEmptyEntries ==
    \A n \in Nodes : \A d \in DOMAIN routeTable[n] : routeTable[n][d] # <<>>

(* C4: loop discard without mutation.  A processRouteDiscovery call at a   *)
(* node that visitedNodes already holds discards the packet and changes    *)
(* nothing: no route table, no bat parameter, no timer, no signal, and the *)
(* packet itself is as it arrived.                                         *)
C4_LoopDiscardChangesNothing ==
    [][(IsDiscoveryStep /\ last'.node \in Range(last'.pktIn.visitedNodes)) =>
          /\ last'.outcome = "loop"
          /\ last'.pktOut = last'.pktIn
          /\ routeTable' = routeTable
          /\ currentLoudness' = currentLoudness
          /\ currentPulseRate' = currentPulseRate
          /\ timerAt' = timerAt
          /\ last'.routeDiscovered = 0
          /\ last'.packetRouted = 0
          /\ last'.sent = {}]_vars

(* C4 witness: [A, B, A] has arrived at A with destination A, while A's    *)
(* table holds a route, and was discarded.                                 *)
C4_Witness ==
    /\ last.op = "discovery" /\ last.outcome = "loop"
    /\ last.node = 0
    /\ last.pktIn.visitedNodes = <<0, 1, 0>>
    /\ last.pktIn.destId = 0
    /\ AllRoutes(0) # {}

(* C5: loop freedom.  A node that a probe has visited discards it, a probe *)
(* that was processed holds no node twice, and neither does a probe as     *)
(* created nor the path of any stored route.                               *)
C5_LoopFreedom ==
    /\ last.op = "discovery" =>
          /\ last.node \in Range(last.pktIn.visitedNodes) => last.outcome = "loop"
          /\ last.outcome # "loop" =>
                /\ NoDup(last.pktOut.visitedNodes)
                /\ Count(last.pktOut.visitedNodes, last.node) = 1
    /\ \A i \in 1 .. Len(last.probes) : NoDup(last.probes[i].visitedNodes)
    /\ \A n \in Nodes : \A r \in AllRoutes(n) : NoDup(r.path)

(* C5 witness: a probe that had made one hop came back to its source and   *)
(* was discarded there.                                                    *)
C5_Witness ==
    /\ last.op = "discovery" /\ last.outcome = "loop"
    /\ Len(last.pktIn.visitedNodes) = 2
    /\ last.pktIn.visitedNodes[1] = last.node

(* C6: destination install.  A packet that passes the loop check at its    *)
(* destination d is handed once to updateRouteTable of the node sourceId,  *)
(* under key d, as a RouteInfo with path = visitedNodes with d appended,   *)
(* hopCount = len - 1, fitness = accumulatedFitness with the last hop's    *)
(* term, lastUpdate = now; no other entry and no other table changes, and  *)
(* nothing is sent on.                                                     *)
C6_ExpectedRoute(pkt, d) ==
    LET visited == Append(pkt.visitedNodes, d)
    IN  [path |-> visited,
         hopCount |-> Len(visited) - 1,
         fitness |-> pkt.accumulatedFitness
                     + (IF Len(visited) > 1
                        THEN InverseQuality(
                                 calculateLinkQuality(visited[Len(visited) - 1], d),
                                 hopCountWeight)
                        ELSE 0),
         linkQuality |-> 0, energyCost |-> 0, lastUpdate |-> now]

C6_DestinationInstall ==
    [][(/\ IsDiscoveryStep
        /\ last'.pktIn.destId = last'.node
        /\ last'.node \notin Range(last'.pktIn.visitedNodes)
        /\ last'.pktIn.sourceId \in Nodes) =>
          LET d == last'.node
              src == last'.pktIn.sourceId
              expected == C6_ExpectedRoute(last'.pktIn, d)
              old == RoutesOf(routeTable[src], d)
              new == RoutesOf(routeTable'[src], d)
          IN  /\ src # d
              /\ last'.outcome = "installed"
              /\ last'.route = expected
              /\ last'.pktOut.visitedNodes = expected.path
              /\ last'.sent = {}
              /\ DOMAIN routeTable'[src] = DOMAIN routeTable[src] \cup {d}
              /\ \A e \in DOMAIN routeTable[src] \ {d} :
                    routeTable'[src][e] = routeTable[src][e]
              /\ \A m \in Nodes \ {src} : routeTable'[m] = routeTable[m]
              /\ Range(new) \subseteq Range(old) \cup {expected}
              /\ Len(new) <= Len(old) + 1
              /\ Len(old) < cfg.maxRoutesPerDestination =>
                    /\ Len(new) = Len(old) + 1
                    /\ Range(new) = Range(old) \cup {expected}]_vars

(* C6 witness: the probe of A for C has arrived at C over B and its route  *)
(* is in A's table, beside a route that was there before.                  *)
C6_Witness ==
    /\ last.op = "discovery" /\ last.outcome = "installed"
    /\ last.node = 2 /\ last.pktIn.sourceId = 0
    /\ last.route.path = <<0, 1, 2>> /\ last.route.hopCount = 2
    /\ now > 0 /\ last.route.lastUpdate = now
    /\ 2 \in DOMAIN routeTable[0]
    /\ Len(routeTable[0][2]) = 2
    /\ last.route \in Range(routeTable[0][2])

(* C7: three-node scenario.  With A, B, C in a line, the probe that A's    *)
(* discovery cycle emits for C travels on towards C: it is handed to the   *)
(* network by the cycle that emitted it.                                   *)
C7_EmittedProbeIsSent ==
    [][(/\ LineLayout
        /\ last'.op = "routeUpdate" /\ last'.node = 0
        /\ broadcastRouteDiscovery(0, 2) \in Range(last'.probes)) =>
          broadcastRouteDiscovery(0, 2) \in last'.sent]_vars

(* C8: unreachable destination.  With B out of range of A and of C, no     *)
(* table ever holds an entry for C, every handler ends normally, and A's   *)
(* timer stays pending: it is set again by each cycle, one interval on.    *)
C8_UnreachableIsSilent ==
    (~LineLayout) =>
        /\ \A n \in Nodes : 2 \notin DOMAIN routeTable[n]
        /\ last.op \in {"initialize", "routeUpdate", "advance"}
        /\ timerAt[0] >= now
        /\ \E start \in StartDelays :
              timerAt[0] = start + cycles[0] * cfg.routingUpdateInterval

(* C8 witness: with B out of range, A has probed C in its second cycle.    *)
C8_Witness ==
    /\ ~LineLayout
    /\ last.op = "routeUpdate" /\ last.node = 0
    /\ cycles[0] >= 2
    /\ broadcastRouteDiscovery(0, 2) \in Range(last.probes)

(* C9: expiry correctness.  cleanupExpiredRoutes at time t keeps, in       *)
(* order, exactly the routes with t - lastUpdate <= routeTimeout (so a     *)
(* route of age routeTimeout stays and an older one goes) and drops the    *)
(* destinations left without a route; after a maintenance cycle the table  *)
(* of the node holds no expired route and no empty entry.                  *)
C9_SweepTimes == now .. (now + cfg.routeTimeout + 2)

C9_ExpiryCorrect ==
    /\ \A n \in Nodes : \A t \in C9_SweepTimes :
          LET tbl == routeTable[n]
              swept == cleanupExpiredRoutes(tbl, t)
              Fresh(r) == t - r.lastUpdate <= cfg.routeTimeout
          IN  /\ DOMAIN swept = {d \in DOMAIN tbl : \E r \in Range(tbl[d]) : Fresh(r)}
              /\ \A d \in DOMAIN swept : swept[d] = SelectSeq(tbl[d], Fresh)
    /\ last.op = "routeUpdate" =>
          /\ \A r \in AllRoutes(last.node) : now - r.lastUpdate <= cfg.routeTimeout
          /\ \A d \in DOMAIN routeTable[last.node] : routeTable[last.node][d] # <<>>

(* C9 witness: a maintenance cycle has removed an expired route and kept   *)
(* one whose age is exactly routeTimeout.                                  *)
C9_Witness ==
    /\ last.op = "routeUpdate"
    /\ last.expired >= 1
    /\ \E r \in AllRoutes(last.node) : now - r.lastUpdate = cfg.routeTimeout

(* C10: parameter clamps.  Once a node has run updateBatParameters, its    *)
(* loudness is at least 0.1 and its pulse rate at most 0.95, whatever      *)
(* alpha, gamma and the initial values are.                                *)
C10_ParameterClamps ==
    \A n \in Nodes :
        cycles[n] >= 1 =>
            /\ currentLoudness[n] >= LoudnessFloor
            /\ currentPulseRate[n] <= PulseRateCeiling

(* C10 witness: both clamps have acted, on a negative alpha and on an      *)
(* initial pulse rate above the ceiling.                                   *)
C10_Witness ==
    \E n \in Nodes :
        /\ cycles[n] >= 1
        /\ cfg.alpha < 0
        /\ cfg.initialPulseRate > PulseRateCeiling
        /\ currentLoudness[n] = LoudnessFloor
        /\ currentPulseRate[n] = PulseRateCeiling

(* C11: monotone convergence.  With 0 < alpha < 1 and gamma > 0 (and an     *)
(* initial loudness at or above the floor, an initial pulse rate in        *)
(* (0, 1]), from startup on no step raises a node's loudness and no step   *)
(* lowers its pulse rate.                                                  *)
C11_MonotoneConvergence ==
    [][(/\ 0 < cfg.alpha /\ cfg.alpha < SCALE
        /\ cfg.gamma > 0
        /\ cfg.initialLoudness >= LoudnessFloor
        /\ 0 < cfg.initialPulseRate /\ cfg.initialPulseRate <= SCALE) =>
          \A n \in Nodes :
              /\ currentLoudness'[n] <= currentLoudness[n]
              /\ currentPulseRate'[n] >= currentPulseRate[n]]_vars

(* C12: loudness closed form.  With 0 < alpha < 1 and an initial loudness  *)
(* L0 >= 0.1, after n updateBatParameters calls the loudness is            *)
(* max(0.1, alpha^n * L0), up to the rounding of the n multiplications;    *)
(* with alpha = 0.9 and L0 = 0.9 it is 0.9^11, about 0.3138, after 10.     *)
RECURSIVE C12_PowMicro(_, _)
C12_PowMicro(a, n) == IF n = 0 THEN 1000000 ELSE (C12_PowMicro(a, n - 1) * a) \div SCALE

C12_ClosedForm(n) ==
    LET decayed == (C12_PowMicro(cfg.alpha, n) * cfg.initialLoudness) \div 1000000
    IN  IF decayed < LoudnessFloor THEN LoudnessFloor ELSE decayed

C12_LoudnessClosedForm ==
    network =>
        \A n \in Nodes :
            /\ currentLoudness[n] <= C12_ClosedForm(cycles[n])
            /\ currentLoudness[n] >= C12_ClosedForm(cycles[n]) - 2
            /\ (cfg.alpha = 900 /\ cfg.initialLoudness = 900 /\ cycles[n] = 10) =>
                  currentLoudness[n] \in 312 .. 314

(* C12 witness: a node has made its tenth call with alpha = 0.9 and an     *)
(* initial loudness of 0.9, and its loudness is still above the floor.     *)
C12_Witness ==
    \E n \in Nodes :
        /\ network
        /\ cfg.alpha = 900 /\ cfg.initialLoudness = 900
        /\ cycles[n] = 10
        /\ last.op = "routeUpdate" /\ last.node = n /\ last.adapted = 1
        /\ currentLoudness[n] > LoudnessFloor

(* C13: upsert keeps the K best.  updateRouteTable(dest, r) on a reachable *)
(* table leaves for dest min(K, n + 1) routes taken from the n routes      *)
(* stored before and r, in ascending fitness order, every route left out   *)
(* being no better than every route kept, and touches no other entry; a    *)
(* route worse than K stored routes is left out and the entry keeps its    *)
(* routes and its fitness sequence (the entry itself when no two of its    *)
(* routes have the same fitness).  With K = 2, routes of fitness 5, 3, 8   *)
(* inserted for one destination leave the fitness sequence (3, 5).         *)
C13_Route(f) ==
    [RouteInfo EXCEPT !.path = <<0, 2>>, !.hopCount = 1, !.fitness = f, !.lastUpdate = now]

C13_Fitnesses == {1000, 1666, 3000, 4666, 5000, 8000, 10000, 20000}

C13_FitnessSeq(routes) == [i \in 1 .. Len(routes) |-> routes[i].fitness]

C13_KBest(old, r, new) ==
    LET all == Append(old, r)
        k == cfg.maxRoutesPerDestination
    IN  /\ Len(new) = IF Len(all) > k THEN k ELSE Len(all)
        /\ \A i \in 1 .. Len(new) - 1 : new[i].fitness <= new[i + 1].fitness
        /\ \A x \in Range(new) : Count(new, x) <= Count(all, x)
        /\ \A x \in Range(all) :
              Count(new, x) < Count(all, x) =>
                  \A y \in Range(new) : y.fitness <= x.fitness
        /\ (Len(old) = k /\ \A x \in Range(old) : x.fitness < r.fitness) =>
              /\ C13_FitnessSeq(new) = C13_FitnessSeq(old)
              /\ \A x \in Range(all) : Count(new, x) = Count(old, x)
              /\ (\A i \in 1 .. Len(old) - 1 : old[i].fitness < old[i + 1].fitness) =>
                    new = old

C13_UpsertKeepsKBest ==
    /\ \A n \in Nodes : \A dest \in Nodes : \A f \in C13_Fitnesses :
          \A t \in updateRouteTable(routeTable[n], dest, C13_Route(f)) :
              /\ DOMAIN t = DOMAIN routeTable[n] \cup {dest}
              /\ \A e \in DOMAIN routeTable[n] \ {dest} : t[e] = routeTable[n][e]
              /\ C13_KBest(RoutesOf(routeTable[n], dest), C13_Route(f), t[dest])
    /\ cfg.maxRoutesPerDestination = 2 =>
          \A t1 \in updateRouteTable(<<>>, 2, C13_Route(5000)) :
          \A t2 \in updateRouteTable(t1, 2, C13_Route(3000)) :
          \A t3 \in updateRouteTable(t2, 2, C13_Route(8000)) :
              C13_FitnessSeq(t3[2]) = <<3000, 5000>>

(* C13 witness: a route has arrived for an entry that holds K better       *)
(* routes, and the entry has kept those.                                   *)
C13_Witness ==
    /\ last.op = "discovery" /\ last.outcome = "installed"
    /\ cfg.maxRoutesPerDestination = 1
    /\ LET entry == RoutesOf(routeTable[last.pktIn.sourceId], last.node)
       IN  /\ Len(entry) = 1
           /\ entry[1].fitness < last.route.fitness
           /\ entry[1].path # last.route.path

(* C14: selectBestRoute.  In every reachable state, whatever installs,     *)
(* optimizer passes and sweeps came before, selectBestRoute(dest) returns  *)
(* a stored route for dest whose fitness is the minimum over the routes    *)
(* stored for dest, and no route exactly when dest is absent or its entry  *)
(* is empty; the handler that calls it leaves every table as it was.       *)
C14_Best(tbl) ==
    \A dest \in Nodes \cup {NoId} :
        LET best == selectBestRoute(tbl, dest)
            stored == RoutesOf(tbl, dest)
        IN  /\ Len(best) <= 1
            /\ (best = <<>>) <=> (dest \notin DOMAIN tbl \/ tbl[dest] = <<>>)
            /\ best # <<>> =>
                  /\ best[1] \in Range(stored)
                  /\ \A r \in Range(stored) : best[1].fitness <= r.fitness

C14_SelectBestRoute ==
    [][/\ \A n \in Nodes : C14_Best(routeTable[n]) /\ C14_Best(routeTable'[n])
       /\ last'.op = "data" =>
             /\ routeTable' = routeTable
             /\ (last'.outcome = "noroute") <=>
                    (RoutesOf(routeTable[last'.node], last'.dataIn.destId) = <<>>)]_vars

(* C14 witness: after a maintenance cycle of node 0, a data packet was     *)
(* given the better of two stored routes of different fitness.             *)
C14_Witness ==
    /\ last.op = "data" /\ last.outcome = "routed" /\ last.node = 0
    /\ cycles[0] >= 1
    /\ LET stored == RoutesOf(routeTable[0], last.dataIn.destId)
       IN  /\ Len(stored) = 2
           /\ stored[1].fitness < stored[2].fitness
           /\ stored[1].path # stored[2].path
           /\ last.dataOut.routePath = stored[1].path

(* C15: data forwarding.  routeDataPacket on a packet for destId puts the  *)
(* path of a best route for destId into the packet and sets currentHop to  *)
(* 0 when the node has a route; without one the packet is left as it came  *)
(* and dropped; either way the packet is consumed, nothing is sent or      *)
(* kept, and no route table, bat parameter or timer changes.               *)
C15_DataForwarding ==
    [][last'.op = "data" =>
          LET n == last'.node
              in == last'.dataIn
              out == last'.dataOut
              stored == RoutesOf(routeTable[n], in.destId)
          IN  /\ UNCHANGED <<routeTable, currentLoudness, currentPulseRate, timerAt,
                             cycles, delivered, now>>
              /\ last'.sent = {}
              /\ last'.packetRouted = 1 /\ last'.routeDiscovered = 0
              /\ out.sourceId = in.sourceId /\ out.destId = in.destId
              /\ stored # <<>> =>
                    /\ last'.outcome = "routed"
                    /\ out.currentHop = 0
                    /\ \E r \in Range(stored) :
                          /\ out.routePath = r.path
                          /\ \A x \in Range(stored) : r.fitness <= x.fitness
              /\ stored = <<>> =>
                    /\ last'.outcome = "noroute"
                    /\ out = in]_vars

(* C15 witness: a packet that came with a path and a hop cursor of 1 was   *)
(* given the path of the stored route and a cursor of 0.                   *)
C15_Witness ==
    /\ last.op = "data" /\ last.outcome = "routed"
    /\ last.dataIn.currentHop = 1
    /\ last.dataOut.currentHop = 0
    /\ last.dataOut.routePath # last.dataIn.routePath
    /\ last.dataOut.routePath = routeTable[last.node][last.dataIn.destId][1].path

(* C16 (as claimed): every firing of the maintenance timer, also one       *)
(* without the network module, makes exactly one updateBatParameters call, *)
(* after the probing decisions of the cycle.                               *)
C16_ProbesGatedBy(n, probes, rate) ==
    \E u \in [Nodes \ {n} -> Draws] :
        \A d \in Nodes \ {n} :
            (\E i \in 1 .. Len(probes) : probes[i].destId = d) <=> (u[d] < rate)

C16_AdaptsOnceAfterProbing(n) ==
    /\ last'.adapted = 1
    /\ <<currentLoudness'[n], currentPulseRate'[n]>>
          = updateBatParameters(currentLoudness[n], now)
    /\ C16_ProbesGatedBy(n, last'.probes, currentPulseRate[n])
    /\ cycles[n] = 0 => currentPulseRate[n] = cfg.initialPulseRate

C16_AdaptOncePerCycle ==
    [][last'.op = "routeUpdate" => C16_AdaptsOnceAfterProbing(last'.node)]_vars

(* C16 (amended): a firing of the maintenance timer that finds the network *)
(* module makes exactly one updateBatParameters call, after its probing    *)
(* decisions, which are gated by the pulse rate the node had before the    *)
(* firing: the configured one in the first cycle, later the one its last   *)
(* call computed, since nothing else changes the parameters.  A firing     *)
(* that does not find the network module probes nothing and makes no call. *)
C16_AdaptOncePerCycleWithNetwork ==
    [][/\ last'.op = "routeUpdate" =>
             IF network
             THEN C16_AdaptsOnceAfterProbing(last'.node)
             ELSE /\ last'.adapted = 0
                  /\ last'.probes = <<>>
                  /\ UNCHANGED <<currentLoudness, currentPulseRate>>
       /\ \A n \in Nodes :
             (currentLoudness'[n] # currentLoudness[n]
              \/ currentPulseRate'[n] # currentPulseRate[n]) =>
                 (last'.op = "routeUpdate" /\ last'.node = n /\ last'.adapted = 1)]_vars

(* C16 witness: in its second cycle a node whose configured pulse rate is  *)
(* 1 has left one destination out, and has then adapted.                   *)
C16_Witness ==
    /\ network
    /\ last.op = "routeUpdate" /\ last.adapted = 1
    /\ cfg.initialPulseRate = SCALE
    /\ cycles[last.node] = 2
    /\ Len(last.probes) = 1

(* C17: maintenance ordering and atomicity.  A firing of node n's timer is *)
(* one step that runs discoverRoutes, optimizeRouteTable,                  *)
(* cleanupExpiredRoutes and scheduleAt in this order: after it the table   *)
(* of n is the table it had before with every fitness recomputed, every    *)
(* entry sorted, the expired routes and the emptied entries gone, and      *)
(* nothing else (no route installed in between); the parameters of n are   *)
(* adapted once; no message is handled in the step and no other node       *)
(* changes.  A message handler runs no maintenance phase.                  *)
C17_MaintenanceStep(n) ==
    LET old == routeTable[n]
        new == routeTable'[n]
        Fresh(r) == now - r.lastUpdate <= cfg.routeTimeout
        Refitted(r) == [r EXCEPT !.fitness = calculateRouteFitness(r)]
    IN  /\ timerAt[n] = now
        /\ last'.phases = <<"discoverRoutes", "optimizeRouteTable",
                            "cleanupExpiredRoutes", "scheduleAt">>
        /\ last'.adapted = 1
        /\ DOMAIN new = {d \in DOMAIN old : \E r \in Range(old[d]) : Fresh(r)}
        /\ \A d \in DOMAIN new :
              /\ IsSortedByFitness(new[d])
              /\ Len(new[d]) = Cardinality({i \in 1 .. Len(old[d]) : Fresh(old[d][i])})
              /\ Range(new[d]) = {Refitted(r) : r \in {x \in Range(old[d]) : Fresh(x)}}
        /\ \A m \in Nodes \ {n} :
              /\ routeTable'[m] = routeTable[m]
              /\ currentLoudness'[m] = currentLoudness[m]
              /\ currentPulseRate'[m] = currentPulseRate[m]
              /\ timerAt'[m] = timerAt[m]
        /\ timerAt'[n] = now + cfg.routingUpdateInterval
        /\ now' = now /\ delivered' = delivered
        /\ last'.pktIn = RouteDiscoveryPacket /\ last'.dataIn = DataPacket
        /\ last'.outcome = "none" /\ last'.packetRouted = 0

C17_MaintenanceAtomic ==
    [][/\ last'.op = "routeUpdate" => C17_MaintenanceStep(last'.node)
       /\ last'.op \in {"discovery", "data", "other"} =>
             /\ UNCHANGED <<timerAt, cycles, currentLoudness, currentPulseRate, now>>
             /\ last'.phases = <<>> /\ last'.adapted = 0 /\ last'.expired = 0
             /\ \A m \in Nodes :
                   routeTable'[m] # routeTable[m] =>
                       (last'.outcome = "installed" /\ m = last'.pktIn.sourceId)]_vars

(* C17 witness: a firing has recomputed the fitness of a two-hop route and *)
(* removed an expired route in the same step.                              *)
C17_Witness ==
    /\ last.op = "routeUpdate"
    /\ last.phases = MaintenancePhases
    /\ last.expired >= 1
    /\ \E r \in AllRoutes(last.node) :
          /\ Len(r.path) = 3
          /\ r.fitness = calculateRouteFitness(r)
          /\ r.lastUpdate < now

(* C18: probing.  The probes of one discovery cycle of node n are for      *)
(* destinations other than n, in ascending order and so at most one per    *)
(* destination, each with sourceId = n, visitedNodes = [n] and             *)
(* accumulatedFitness = 0; a destination is probed exactly when its draw   *)
(* is below the pulse rate n had when the cycle began: none is probed at a *)
(* rate of 0 or less, every one at a rate of 1 or more; each probe emits   *)
(* routeDiscovered once.                                                   *)
C18_Probing ==
    [][last'.op = "routeUpdate" =>
          LET n == last'.node
              probes == last'.probes
              rate == currentPulseRate[n]
              Probed(d) == \E i \in 1 .. Len(probes) : probes[i].destId = d
          IN  /\ \A i \in 1 .. Len(probes) :
                    /\ probes[i].sourceId = n
                    /\ probes[i].visitedNodes = <<n>>
                    /\ probes[i].accumulatedFitness = 0
                    /\ probes[i].destId \in Nodes \ {n}
              /\ \A i, j \in 1 .. Len(probes) :
                    i < j => probes[i].destId < probes[j].destId
              /\ \E u \in [Nodes \ {n} -> Draws] :
                    \A d \in Nodes \ {n} : Probed(d) <=> (u[d] < rate)
              /\ rate <= 0 => probes = <<>>
              /\ rate >= SCALE => \A d \in Nodes \ {n} : Probed(d)
              /\ last'.routeDiscovered = Len(probes)]_vars

(* C18 witness: the middle node has probed both of the others, at a pulse  *)
(* rate strictly between 0 and 1.                                          *)
C18_Witness ==
    /\ last.op = "routeUpdate" /\ last.node = 1
    /\ Len(last.probes) = 2
    /\ last.probes[1].destId = 0 /\ last.probes[2].destId = 2
    /\ cfg.initialPulseRate = 500
    /\ cycles[1] = 1

(* C19: link quality is bounded.  For every pair of node identifiers,      *)
(* every position and every (positive) communicationRange,                 *)
(* calculateLinkQuality is between 0 and 1, equal in both directions, 1 at *)
(* distance 0, strictly between 0 and 1 at a distance within the range, 0  *)
(* at the range and beyond, and 0 when the network module or one of the    *)
(* two drones is not found; so the term a hop adds to accumulatedFitness   *)
(* is between 1/1.1 and 1/0.1 times hopCountWeight.                        *)
C19_Ids == Nodes \cup {NoId, NumNodes}

C20_SourceFound(pkt) == network /\ pkt.sourceId \in Nodes

C20_AtDestination(ev) ==
    /\ ev.op = "discovery"
    /\ ev.pktIn.destId = ev.node
    /\ ev.node \notin Range(ev.pktIn.visitedNodes)

C20_UpdateFailureIsSilent ==
    [][IsDiscoveryStep =>
          /\ (C20_AtDestination(last') /\ ~C20_SourceFound(last'.pktIn)) =>
                /\ last'.outcome = "nosource"
                /\ last'.sent = {}
                /\ last'.pktOut.visitedNodes = Append(last'.pktIn.visitedNodes, last'.node)
                /\ UNCHANGED <<routeTable, currentLoudness, currentPulseRate, timerAt,
                               cycles, now>>
          /\ (last.outcome = "nosource" /\ last'.node = last.node
              /\ C20_AtDestination(last') /\ C20_SourceFound(last'.pktIn)) =>
                /\ last'.outcome = "installed"
                /\ last'.route \in Range(routeTable'[last'.pktIn.sourceId][last'.node])]_vars

(* C20 witness: a probe of node 0 has reached its destination, which found *)
(* no network module, after another packet had been handled; every table   *)
(* is empty.                                                               *)
C20_Witness ==
    /\ ~network
    /\ last.op = "discovery" /\ last.outcome = "nosource"
    /\ last.pktIn.sourceId = 0 /\ last.pktIn.visitedNodes = <<0, 1>>
    /\ last.node = 2
    /\ delivered = 2
    /\ \A n \in Nodes : routeTable[n] = <<>>

(***************************************************************************)
(* C21.  A node that is not the destination relays a discovery message     *)
(* only when, after it appended itself, visitedNodes holds fewer than      *)
(* HopCeiling (10) nodes and the loudness draw passed; at the ceiling the  *)
(* message is dropped.  So a message that relays passed on, processed by   *)
(* any node, never holds more than 10 nodes, and neither does any stored   *)
(* route path.                                                             *)
(***************************************************************************)
C21_HopCeiling ==
    [][(IsDiscoveryStep /\ last'.outcome # "loop") =>
          /\ last'.outcome = "forward" =>
                /\ last'.pktOut.destId # last'.node
                /\ Len(last'.pktOut.visitedNodes) < HopCeiling
                /\ currentLoudness[last'.node] > 0
          /\ (last'.pktOut.destId # last'.node
               /\ Len(last'.pktOut.visitedNodes) >= HopCeiling)
                => last'.outcome = "drop"
          /\ Len(last'.pktOut.visitedNodes) = Len(last'.pktIn.visitedNodes) + 1
          /\ Len(last'.pktOut.visitedNodes) <= HopCeiling
          /\ \A m \in Nodes : \A r \in AllRoutes(m)' : Len(r.path) <= HopCeiling]_vars

C21_Witness ==
    /\ last.op = "discovery"
    /\ last.outcome = "drop"
    /\ Len(last.pktOut.visitedNodes) = HopCeiling
    /\ \E r \in AllRoutes(0) : Len(r.path) = HopCeiling

(***************************************************************************)
(* C22.  On every path through handleMessage (loop detected, destination   *)
(* reached, relay gate passed or failed, route found or not, unknown       *)
(* message) the received discovery or data message is deleted exactly once *)
(* and nothing else is done with it: it is not sent on, kept or scheduled  *)
(* again.  Only the maintenance timer survives its handler, by one         *)
(* scheduleAt.                                                             *)
(***************************************************************************)
C22_Paths ==
    [discovery |-> {"loop", "installed", "nosource", "forward", "drop"},
     data |-> {"routed", "noroute"},
     other |-> {"deleted"}]

C22_ConsumedOnce ==
    /\ last.op \in DOMAIN C22_Paths =>
          /\ last.outcome \in C22_Paths[last.op]
          /\ last.disposal = <<"delete">>
          /\ last.sent = {}
    /\ last.op = "routeUpdate" => last.disposal = <<"scheduleAt">>
    /\ last.disposal = <<"scheduleAt">> => last.op = "routeUpdate"

C22_Witness ==
    /\ last.op = "discovery"
    /\ last.outcome = "forward"
    /\ last.disposal = <<"delete">>

(***************************************************************************)
(* C23.  After initialize every node has its one maintenance timer         *)
(* pending, at a time not in the past.  A firing takes the timer that was  *)
(* due and schedules it once, for the current time plus                    *)
(* routingUpdateInterval; nothing else schedules a timer, so a timer is    *)
(* never scheduled while pending and a living node always has its timer    *)
(* pending.  Teardown cancels and releases the timer, which never fires or *)
(* is scheduled again.                                                     *)
(***************************************************************************)
C23_TimerStep(n) ==
    IF last'.op = "routeUpdate" /\ last'.node = n
    THEN /\ timerAt[n] = now
         /\ Count(last'.phases, "scheduleAt") = 1
         /\ last'.disposal = <<"scheduleAt">>
         /\ timerAt'[n] = now + cfg.routingUpdateInterval
         /\ cycles'[n] = cycles[n] + 1
    ELSE IF last'.op = "teardown" /\ last'.node = n
    THEN /\ timerAt[n] # NoTimer
         /\ last'.disposal = <<"cancelAndDelete">>
         /\ timerAt'[n] = NoTimer
         /\ cycles'[n] = cycles[n]
    ELSE /\ timerAt'[n] = timerAt[n]
         /\ cycles'[n] = cycles[n]

C23_TimerLifecycle ==
    [][\A n \in Nodes :
          /\ C23_TimerStep(n)
          /\ timerAt[n] = NoTimer => timerAt'[n] = NoTimer
          /\ timerAt[n] # NoTimer => timerAt[n] >= now
          /\ timerAt'[n] # NoTimer => timerAt'[n] >= now']_vars

C23_Witness ==
    /\ last.op = "teardown"
    /\ cycles[last.node] >= 1
    /\ timerAt[last.node] = NoTimer
    /\ \E m \in Nodes : cycles[m] >= 1 /\ timerAt[m] > now

(***************************************************************************)
(* C24.  Every processRouteDiscovery step that passes the loop check       *)
(* leaves accumulatedFitness at least as large as it arrived, for every    *)
(* configured hopCountWeight and every link quality.                       *)
(***************************************************************************)
C24_Grows == last'.pktOut.accumulatedFitness >= last'.pktIn.accumulatedFitness

C24_FitnessMonotone ==
    [][(IsDiscoveryStep /\ last'.outcome # "loop") => C24_Grows]_vars

(* C24 as amended: the same for every configured hopCountWeight that is    *)
(* not negative, and every link quality.                                   *)
C24_FitnessMonotoneNonNegativeWeight ==
    [][(IsDiscoveryStep /\ last'.outcome # "loop" /\ cfg.hopCountWeight >= 0)
          => C24_Grows]_vars

C24_Witness ==
    /\ last.op = "discovery"
    /\ last.outcome # "loop"
    /\ cfg.hopCountWeight > 0
    /\ last.pktIn.accumulatedFitness > 0
    /\ last.pktOut.accumulatedFitness > last.pktIn.accumulatedFitness

(***************************************************************************)
(* C25.  Each node that accepts a discovery message with a previous node   *)
(* adds exactly hopCountWeight / (linkQuality(previous, self) + 0.1) to    *)
(* accumulatedFitness, the destination included: the route it builds       *)
(* carries the term of the last hop.  The route built from a probe that    *)
(* travelled k hops has the sum of the k terms as fitness; each term lies  *)
(* between hopCountWeight / 1.1 and 10 * hopCountWeight, and a hop whose   *)
(* positions are unavailable adds 10 * hopCountWeight.                     *)
(***************************************************************************)
C25_Term(prev, self) ==
    (((SCALE * SCALE) \div (calculateLinkQuality(prev, self) + LinkQualityOffset))
        * cfg.hopCountWeight) \div SCALE

RECURSIVE C25_SumOfTerms(_, _)
C25_SumOfTerms(path, k) ==
    IF k = 0 THEN 0
    ELSE C25_SumOfTerms(path, k - 1) + C25_Term(path[k], path[k + 1])

C25_PerHopCost ==
    [][(IsDiscoveryStep /\ last'.outcome # "loop") =>
          LET inn == last'.pktIn
              out == last'.pktOut
              self == last'.node
              added == out.accumulatedFitness - inn.accumulatedFitness
              prev == inn.visitedNodes[Len(inn.visitedNodes)]
          IN  /\ inn.visitedNodes = <<>> => added = 0
              /\ inn.visitedNodes # <<>> =>
                    /\ added = C25_Term(prev, self)
                    /\ added >= (cfg.hopCountWeight * SCALE) \div (SCALE + LinkQualityOffset)
                    /\ added <= 10 * cfg.hopCountWeight
                    /\ (~network \/ prev \notin Nodes) => added = 10 * cfg.hopCountWeight
              /\ out.destId = self =>
                    /\ last'.route.fitness = out.accumulatedFitness
                    /\ last'.route.path = out.visitedNodes
                    /\ inn.accumulatedFitness
                          = C25_SumOfTerms(inn.visitedNodes, Len(inn.visitedNodes) - 1)
                    /\ last'.route.fitness
                          = C25_SumOfTerms(last'.route.path, last'.route.hopCount)]_vars

C25_Witness ==
    /\ last.op = "discovery"
    /\ last.outcome = "installed"
    /\ last.route.hopCount = 2
    /\ last.route.fitness = C25_SumOfTerms(last.route.path, 2)
    /\ C25_Term(last.route.path[1], last.route.path[2])
          # C25_Term(last.route.path[2], last.route.path[3])
    /\ C25_Term(last.route.path[2], last.route.path[3]) < 10 * cfg.hopCountWeight

(***************************************************************************)
(* C26.  The optimizer pass recomputes every stored fitness from the       *)
(* current link quality and mobility of the route's path: after a          *)
(* maintenance cycle, two routes of the node with the same hop count whose *)
(* links differ in quality have different fitness values.                  *)
(***************************************************************************)
C26_PathQualities(path) ==
    [i \in 1 .. Len(path) - 1 |-> calculateLinkQuality(path[i], path[i + 1])]

C26_OptimizerUsesCurrentQuality ==
    last.op = "routeUpdate" =>
       \A r1, r2 \in AllRoutes(last.node) :
          (r1.hopCount = r2.hopCount
           /\ C26_PathQualities(r1.path) # C26_PathQualities(r2.path))
             => r1.fitness # r2.fitness

(***************************************************************************)
(* C27.  After a maintenance cycle every route of the node has the fitness *)
(* hopCount*hopCountWeight + 10*linkQualityWeight                          *)
(* + 0.1*len(path)*mobilityWeight: linkQuality and energyCost of a route   *)
(* are 0 as constructed and every node's mobility is 0.1.  What discovery  *)
(* accumulated is overwritten, and with hopCountWeight >= 0 and            *)
(* mobilityWeight >= 0, not both zero, every destination's routes are in   *)
(* ascending order of hop count.                                           *)
(***************************************************************************)
C27_ClosedForm(r) ==
    r.hopCount * cfg.hopCountWeight
    + 10 * cfg.linkQualityWeight
    + Len(r.path) * ((NodeMobility * cfg.mobilityWeight) \div SCALE)

C27_ByHopCount(routes) ==
    \A i, j \in 1 .. Len(routes) : i < j => routes[i].hopCount <= routes[j].hopCount

C27_OptimizedFitness ==
    /\ \A n \in Nodes : \A r \in AllRoutes(n) : r.linkQuality = 0 /\ r.energyCost = 0
    /\ last.op = "routeUpdate" =>
          /\ \A r \in AllRoutes(last.node) : r.fitness = C27_ClosedForm(r)
          /\ (cfg.hopCountWeight >= 0 /\ cfg.mobilityWeight >= 0
               /\ cfg.hopCountWeight + cfg.mobilityWeight > 0)
                => \A d \in DOMAIN routeTable[last.node] :
                      C27_ByHopCount(routeTable[last.node][d])

C27_Witness ==
    /\ last.op = "routeUpdate"
    /\ cfg.hopCountWeight > 0
    /\ \E d \in DOMAIN routeTable[last.node] :
          LET routes == routeTable[last.node][d]
          IN  /\ Len(routes) = 2
              /\ routes[1].hopCount < routes[2].hopCount
              /\ PathCost(routes[1].path) > PathCost(routes[2].path)
              /\ routes[1].fitness # PathCost(routes[1].path)

(***************************************************************************)
(* C28.  optimizeRouteTable rewrites fitness and order only: the result    *)
(* has the same destinations and, for each, the same routes but for their  *)
(* fitness (path, hopCount, linkQuality, energyCost and lastUpdate are as  *)
(* they were), and a second pass changes nothing: it yields the tables the *)
(* first pass yields, with the same fitness at every place.                *)
(***************************************************************************)
C28_Strip(routes) == [i \in 1 .. Len(routes) |-> [routes[i] EXCEPT !.fitness = 0]]

C28_SameRoutes(a, b) ==
    /\ Len(a) = Len(b)
    /\ \A x \in Range(C28_Strip(a)) \cup Range(C28_Strip(b)) :
          Count(C28_Strip(a), x) = Count(C28_Strip(b), x)

C28_FrameAndIdempotent(tbl) ==
    \A once \in optimizeRouteTable(tbl) :
       /\ DOMAIN once = DOMAIN tbl
       /\ \A d \in DOMAIN tbl : C28_SameRoutes(once[d], tbl[d])
       /\ once \in optimizeRouteTable(once)
       /\ \A twice \in optimizeRouteTable(once) :
             /\ twice \in optimizeRouteTable(tbl)
             /\ \A d \in DOMAIN tbl : \A i \in 1 .. Len(once[d]) :
                   twice[d][i].fitness = once[d][i].fitness

C28_OptimizerFrame == \A n \in Nodes : C28_FrameAndIdempotent(routeTable[n])

C28_Witness ==
    \E n \in Nodes : \E once \in optimizeRouteTable(routeTable[n]) :
       \E d \in DOMAIN once :
          /\ Len(once[d]) = 2
          /\ once[d][1].path # routeTable[n][d][1].path
          /\ once[d][1].fitness < once[d][2].fitness
          /\ once[d][1].lastUpdate # once[d][2].lastUpdate

(***************************************************************************)
(* C29.  currentLoudness and currentPulseRate of a node change only in     *)
(* the updateBatParameters call of that node's discovery cycle, which      *)
(* computes the loudness from the current loudness and the pulse rate from *)
(* the current time; the handlers of discovery messages, data packets and  *)
(* other messages, and with them the table operations they call, leave     *)
(* both as they are, and no step puts them back to the configured values.  *)
(***************************************************************************)
C29_Adapted(n) ==
    LET decayed == (cfg.alpha * currentLoudness[n]) \div SCALE
        grown == (cfg.initialPulseRate
                  * (SCALE - ExpNegTenths((cfg.gamma * now) \div 100))) \div SCALE
    IN  /\ currentLoudness'[n] = IF decayed < LoudnessFloor THEN LoudnessFloor ELSE decayed
        /\ currentPulseRate'[n] = IF grown > PulseRateCeiling THEN PulseRateCeiling ELSE grown

C29_ControllerOnly ==
    [][\A n \in Nodes :
          IF last'.op = "routeUpdate" /\ last'.node = n /\ last'.adapted = 1
          THEN /\ C29_Adapted(n)
               /\ Head(last'.phases) = "discoverRoutes"
               /\ currentLoudness[n] < cfg.initialLoudness =>
                     currentLoudness'[n] < cfg.initialLoudness
          ELSE /\ currentLoudness'[n] = currentLoudness[n]
               /\ currentPulseRate'[n] = currentPulseRate[n]]_vars

C29_Witness ==
    /\ last.op = "discovery"
    /\ last.outcome = "installed"
    /\ cycles[last.node] >= 1
    /\ currentLoudness[last.node] < cfg.initialLoudness
    /\ currentPulseRate[last.node] # cfg.initialPulseRate
    /\ \E m \in Nodes : cycles[m] = 0 /\ currentLoudness[m] = cfg.initialLoudness

(***************************************************************************)
(* C30.  The table of a node S gains a route only in the handler of a node *)
(* d that processes a discovery message with sourceId = S and destId = d,  *)
(* and only under destination d; routes leave S's table or change place in *)
(* it only in S's own maintenance cycle or by the truncation of such an    *)
(* install.  A relay changes no table, and a destination changes its own   *)
(* table only if it is the source of the message as well.                  *)
(***************************************************************************)
C30_Entry(tbl, d) == IF d \in DOMAIN tbl THEN tbl[d] ELSE <<>>

C30_DrawnFrom(new, old) ==
    \A x \in Range(C28_Strip(new)) : Count(C28_Strip(new), x) <= Count(C28_Strip(old), x)

C30_Install(S) ==
    /\ last'.op = "discovery"
    /\ last'.outcome = "installed"
    /\ last'.pktIn.sourceId = S
    /\ last'.pktIn.destId = last'.node
    /\ S = last'.node => last'.pktIn.sourceId = last'.node
    /\ \A d \in Nodes \ {last'.node} :
          /\ d \in DOMAIN routeTable'[S] <=> d \in DOMAIN routeTable[S]
          /\ C30_Entry(routeTable'[S], d) = C30_Entry(routeTable[S], d)
    /\ C30_DrawnFrom(C30_Entry(routeTable'[S], last'.node),
                     Append(C30_Entry(routeTable[S], last'.node), last'.route))

C30_Maintenance(S) ==
    /\ last'.op = "routeUpdate"
    /\ last'.node = S
    /\ DOMAIN routeTable'[S] \subseteq DOMAIN routeTable[S]
    /\ \A d \in DOMAIN routeTable'[S] : C30_DrawnFrom(routeTable'[S][d], routeTable[S][d])

C30_Provenance ==
    [][/\ \A S \in Nodes :
             routeTable'[S] # routeTable[S] => (C30_Install(S) \/ C30_Maintenance(S))
       /\ (IsDiscoveryStep /\ last'.pktIn.destId # last'.node) => routeTable' = routeTable
       /\ last'.op \in {"data", "other", "advance"} => routeTable' = routeTable]_vars

C30_Witness ==
    /\ last.op = "discovery"
    /\ last.outcome = "installed"
    /\ last.node # last.pktIn.sourceId
    /\ last.route \in Range(C30_Entry(routeTable[last.pktIn.sourceId], last.node))
    /\ Len(C30_Entry(routeTable[last.pktIn.sourceId], last.node)) = cfg.maxRoutesPerDestination
    /\ routeTable[last.node] = <<>>

(***************************************************************************)
(* C31.  In every reachable state every route stored in the table of node  *)
(* S under destination d has a path that is not empty, starts at S, ends   *)
(* at d and repeats no node, and its hopCount is the length of the path    *)
(* less one; so neither is changed after the install.                      *)
(***************************************************************************)
C31_WellFormed(S, d, r) ==
    /\ r.path # <<>>
    /\ r.path[1] = S
    /\ r.path[Len(r.path)] = d
    /\ NoDup(r.path)
    /\ r.hopCount = Len(r.path) - 1

C31_RoutesWellFormed ==
    \A S \in Nodes : \A d \in DOMAIN routeTable[S] :
       \A r \in Range(routeTable[S][d]) : C31_WellFormed(S, d, r)

C31_Witness ==
    /\ last.op = "routeUpdate"
    /\ cycles[last.node] >= 2
    /\ \E d \in DOMAIN routeTable[last.node] :
          \E r \in Range(routeTable[last.node][d]) :
             /\ r.hopCount = 2
             /\ r.lastUpdate < now
             /\ r.fitness # PathCost(r.path)

(***************************************************************************)
(* C32.  lastUpdate is the time of the install and is never changed, not   *)
(* by the optimizer and not by a data packet that uses the route.  A       *)
(* maintenance cycle of the owner leaves no route older than routeTimeout, *)
(* so a route is at no time older than routeTimeout plus the time since    *)
(* the owner's last cycle, which is at most routingUpdateInterval: that is *)
(* the oldest route selectBestRoute and routeDataPacket can use.           *)
(***************************************************************************)
C32_Age(r, t) == t - r.lastUpdate

C32_Kept(S, r) == \E old \in AllRoutes(S) : [old EXCEPT !.fitness = 0] = [r EXCEPT !.fitness = 0]

C32_Installed(S, r) ==
    /\ last'.op = "discovery"
    /\ last'.outcome = "installed"
    /\ last'.pktIn.sourceId = S
    /\ r = last'.route
    /\ r.lastUpdate = now

C32_RouteLifetime ==
    [][/\ \A S \in Nodes : \A r \in AllRoutes(S)' :
             /\ C32_Kept(S, r) \/ C32_Installed(S, r)
             /\ C32_Age(r, now')
                   <= cfg.routeTimeout + (now' - (timerAt'[S] - cfg.routingUpdateInterval))
             /\ C32_Age(r, now') <= cfg.routeTimeout + cfg.routingUpdateInterval
       /\ last'.op = "routeUpdate" =>
             \A S \in {last'.node} : \A r \in AllRoutes(S)' :
                C32_Age(r, now) <= cfg.routeTimeout
       /\ (last'.op = "data" /\ last'.outcome = "routed") =>
             /\ routeTable' = routeTable
             /\ \E r \in AllRoutes(last'.node) :
                   /\ r = selectBestRoute(routeTable[last'.node], last'.dataIn.destId)[1]
                   /\ last'.dataOut.routePath = r.path
                   /\ C32_Age(r, now) <= cfg.routeTimeout + cfg.routingUpdateInterval]_vars

C32_Witness ==
    /\ last.op = "data"
    /\ last.outcome = "routed"
    /\ cycles[last.node] >= 1
    /\ \E r \in AllRoutes(last.node) :
          /\ r.path = last.dataOut.routePath
          /\ C32_Age(r, now) > cfg.routeTimeout
          /\ C32_Age(r, now) = cfg.routeTimeout + cfg.routingUpdateInterval

(***************************************************************************)
(* C33.  cleanupExpiredRoutes touches expired routes only: what it leaves  *)
(* under a destination are the routes that have not expired, each as it    *)
(* was and as often as it was there, in the order they had; a sequence     *)
(* sorted by fitness stays sorted, and a destination with a route that has *)
(* not expired stays in the table.                                         *)
(***************************************************************************)
C33_Alive(r, t) == ~((t - r.lastUpdate) > cfg.routeTimeout)

C33_InOrder(new, old) ==
    \E f \in [1 .. Len(new) -> 1 .. Len(old)] :
       /\ \A i \in 1 .. Len(new) : new[i] = old[f[i]]
       /\ \A i, j \in 1 .. Len(new) : i < j => f[i] < f[j]

C33_Swept(old, new, t) ==
    /\ \A d \in DOMAIN old :
          (\E r \in Range(old[d]) : C33_Alive(r, t)) => d \in DOMAIN new
    /\ \A d \in DOMAIN new :
          /\ d \in DOMAIN old
          /\ C33_InOrder(new[d], old[d])
          /\ \A r \in Range(new[d]) : C33_Alive(r, t)
          /\ \A r \in Range(old[d]) :
                C33_Alive(r, t) => Count(new[d], r) = Count(old[d], r)
          /\ IsSortedByFitness(old[d]) => IsSortedByFitness(new[d])

C33_SweepFrame ==
    \A n \in Nodes : \A t \in C9_SweepTimes :
       C33_Swept(routeTable[n], cleanupExpiredRoutes(routeTable[n], t), t)

C33_Witness ==
    \E n \in Nodes : \E d \in DOMAIN routeTable[n] :
       LET routes == routeTable[n][d]
       IN  /\ Len(routes) = 2
           /\ routes[1].path # routes[2].path
           /\ \E t \in C9_SweepTimes :
                 LET swept == cleanupExpiredRoutes(routeTable[n], t)
                 IN  d \in DOMAIN swept /\ swept[d] = <<routes[2]>>
           /\ \E t \in C9_SweepTimes :
                 LET swept == cleanupExpiredRoutes(routeTable[n], t)
                 IN  d \in DOMAIN swept /\ swept[d] = routes

(***************************************************************************)
(* C34.  An install adds the new route to what the destination's entry     *)
(* held and only then cuts the entry to K routes: below the bound the      *)
(* entry afterwards holds every route it held, as often as it held it,     *)
(* and the new route once more, also when a route with the same path, or   *)
(* the very same route, was there already.  No entry is replaced or        *)
(* refreshed for having the path of the new route.                         *)
(***************************************************************************)
C34_Stored(old, new, r) ==
    /\ Len(new) = Min({cfg.maxRoutesPerDestination, Len(old) + 1})
    /\ Len(old) < cfg.maxRoutesPerDestination =>
          \A x \in Range(old) \cup {r} :
             Count(new, x) = Count(old, x) + (IF x = r THEN 1 ELSE 0)
    /\ \A x \in Range(new) : Count(new, x) <= Count(old, x) + (IF x = r THEN 1 ELSE 0)

C34_NoDeduplication ==
    [][(IsDiscoveryStep /\ last'.outcome = "installed") =>
          \A S \in {last'.pktIn.sourceId} : \A d \in {last'.node} :
             /\ d \in DOMAIN routeTable'[S]
             /\ C34_Stored(RoutesOf(routeTable[S], d), routeTable'[S][d], last'.route)]_vars

C34_Witness ==
    /\ last.op = "discovery"
    /\ last.outcome = "installed"
    /\ \E routes \in {RoutesOf(routeTable[last.pktIn.sourceId], last.node)} :
          /\ Len(routes) = 2
          /\ routes[1] = routes[2]
          /\ routes[1] = last.route

(***************************************************************************)
(* C35.  The frequency draw has no influence.  A discovery cycle draws two *)
(* random values for every destination other than the node, the first for  *)
(* the frequency and the second for the pulse; with the same random values *)
(* the cycle emits the same probes for every frequencyMin and              *)
(* frequencyMax, a probe to a destination exactly when the second value of *)
(* its pair is below the pulse rate, and it leaves the bat parameters and  *)
(* the route table that follow from the state before it alone.             *)
(***************************************************************************)
C35_Dest(n, j) == IF j - 1 < n THEN j - 1 ELSE j

C35_ProbedDests(probes) == {probes[i].destId : i \in 1 .. Len(probes)}

C35_SameForEveryRange(n) ==
    /\ Len(last'.random) = 2 * (NumNodes - 1)
    /\ last'.draws = Len(last'.random)
    /\ \A fr \in FrequencyRanges :
          discoverRoutesDrawing(n, last'.random, fr) = last'.probes
    /\ \A j \in 1 .. NumNodes - 1 :
          C35_Dest(n, j) \in C35_ProbedDests(last'.probes)
             <=> last'.random[2 * j] < currentPulseRate[n]
    /\ C29_Adapted(n)
    /\ routeTable'[n] \in {cleanupExpiredRoutes(t, now) : t \in optimizeRouteTable(routeTable[n])}

C35_FrequencyHasNoInfluence ==
    [][last'.op = "routeUpdate" => C35_SameForEveryRange(last'.node)]_vars

C35_Witness ==
    /\ last.op = "routeUpdate"
    /\ cfg.frequencyMin = 3000
    /\ Len(last.probes) = 1
    /\ last.random[1] > last.random[2]
    /\ last.random[3] < last.random[4]
    /\ Frequency(FrequencyRange, last.random[1]) # Frequency(FrequencyRange, last.random[3])

(***************************************************************************)
(* C36.  packetRouted is emitted once for every data packet handled, a     *)
(* packet without a route included.  routeDiscovered is emitted once for   *)
(* every probe a node initiates and once for every discovery message a     *)
(* node consumes as the destination, also when nothing is installed in the *)
(* source's table; it is not emitted on a loop discard or at a relay.  No  *)
(* other handler emits either.                                             *)
(***************************************************************************)
C36_Emitted(ev) ==
    IF ev.op = "data" THEN [packetRouted |-> 1, routeDiscovered |-> 0]
    ELSE IF ev.op = "routeUpdate"
         THEN [packetRouted |-> 0, routeDiscovered |-> Len(ev.probes)]
    ELSE IF ev.op = "discovery" /\ ev.outcome # "loop" /\ ev.pktOut.destId = ev.node
         THEN [packetRouted |-> 0, routeDiscovered |-> 1]
    ELSE [packetRouted |-> 0, routeDiscovered |-> 0]

C36_TelemetryCounters ==
    /\ last.packetRouted = C36_Emitted(last).packetRouted
    /\ last.routeDiscovered = C36_Emitted(last).routeDiscovered
    /\ last.op = "data" => last.outcome \in {"routed", "noroute"}
    /\ (last.op = "discovery" /\ last.routeDiscovered = 1)
          => last.outcome \in {"installed", "nosource"}

C36_Witness ==
    /\ last.op = "discovery"
    /\ last.outcome = "nosource"
    /\ last.routeDiscovered = 1
    /\ \E n \in Nodes : cycles[n] >= 1

(***************************************************************************)
(* C37.  Every event a node handles runs exactly one of the maintenance    *)
(* cycle (the node's timer), processRouteDiscovery, routeDataPacket and    *)
(* the drop of any other message: the step has the marks of that one       *)
(* branch and of no other.  A message of unknown type is deleted and       *)
(* changes no route table, bat parameter, counter or timer.                *)
(***************************************************************************)
C37_Marks(ev) ==
    [cycle |-> ev.phases # <<>> \/ ev.probes # <<>> \/ ev.adapted # 0
               \/ ev.disposal = <<"scheduleAt">>,
     discovery |-> ev.pktIn # RouteDiscoveryPacket \/ ev.pktOut # RouteDiscoveryPacket
                   \/ ev.route # RouteInfo,
     data |-> ev.dataIn # DataPacket \/ ev.dataOut # DataPacket \/ ev.packetRouted # 0]

C37_Branch(ev) ==
    IF ev.op = "routeUpdate"
    THEN /\ ev.phases = MaintenancePhases
         /\ ~C37_Marks(ev).discovery /\ ~C37_Marks(ev).data
    ELSE IF ev.op = "discovery"
    THEN /\ ev.pktIn # RouteDiscoveryPacket
         /\ ~C37_Marks(ev).cycle /\ ~C37_Marks(ev).data
    ELSE IF ev.op = "data"
    THEN /\ ev.dataIn # DataPacket
         /\ ev.packetRouted = 1
         /\ ~C37_Marks(ev).cycle /\ ~C37_Marks(ev).discovery
    ELSE /\ ev.op = "other"
         /\ ev = [NoEvent EXCEPT !.op = "other", !.node = ev.node,
                                 !.outcome = "deleted", !.disposal = <<"delete">>]

C37_DispatchExclusive ==
    [][last'.op # "advance" =>
          /\ last'.node \in Nodes
          /\ C37_Branch(last')
          /\ last'.op = "routeUpdate" =>
                timerAt[last'.node] = now /\ delivered' = delivered
          /\ last'.op \in {"discovery", "data", "other"} =>
                UNCHANGED <<timerAt, cycles, currentLoudness, currentPulseRate>>
          /\ last'.op \in {"data", "other"} => UNCHANGED <<routeTable, delivered>>]_vars

C37_Witness ==
    /\ last.op = "other"
    /\ cycles[last.node] >= 1
    /\ routeTable[last.node] # <<>>
    /\ currentLoudness[last.node] # cfg.initialLoudness

(***************************************************************************)
(* C38.  At a node that is not the destination exactly one random value is *)
(* drawn for every discovery message that passes the loop check, whether   *)
(* or not visitedNodes has reached the ceiling of 10; none is drawn on the *)
(* loop discard and none at the destination.                               *)
(***************************************************************************)
C38_AtRelay(ev) == ev.op = "discovery" /\ ev.outcome \in {"forward", "drop"}

C38_RelayDraw ==
    last.op = "discovery" => last.draws = (IF C38_AtRelay(last) THEN 1 ELSE 0)

(* C38 as amended: the value is drawn for every such message that holds    *)
(* fewer than 10 nodes after the node appended itself; none is drawn once  *)
(* visitedNodes has reached the ceiling, on the loop discard or at the     *)
(* destination.                                                            *)
C38_RelayDrawBelowCeiling ==
    last.op = "discovery" =>
       last.draws = (IF C38_AtRelay(last) /\ Len(last.pktOut.visitedNodes) < HopCeiling
                     THEN 1 ELSE 0)

C38_Witness ==
    /\ last.op = "discovery"
    /\ last.outcome = "drop"
    /\ Len(last.pktOut.visitedNodes) = HopCeiling
    /\ last.draws = 0
    /\ currentLoudness[last.node] > 0

====
